---- MODULE Spec2Model ----
(***************************************************************************)
(* Model of curriculum.js: cleanJsonForLLM (the normalizer of raw event   *)
(* documents) and downloadJsonAsCsv (the CSV exporter).                    *)
(*                                                                         *)
(* JavaScript values are tagged records [t, s, n, p]:                      *)
(*   t = "undefined" | "null" | "bool" | "num" | "str" | "arr" | "obj",    *)
(*       "fn" for a built-in function and "proto" for a built-in prototype *)
(*   s = the characters of a string (a sequence of one-character strings; *)
(*       a character that a TLA+ string cannot hold is written as the four *)
(*       hexadecimal digits of its code, "000B", "FEFF"), the name of a    *)
(*       function, the text of a prototype                                 *)
(*   n = the number (bool: 0 or 1)                                         *)
(*   p = the elements of an array, or the <<key, value>> pairs of an       *)
(*       object in the order the properties were created (keys are         *)
(*       character sequences, each key once)                               *)
(* The own properties of the objects given to the two functions hold data: *)
(* undefined, null, booleans, numbers, strings, arrays and objects.        *)
(* A property read looks at the own properties first and then at the       *)
(* members inherited from the built-in prototypes.                         *)
(***************************************************************************)
EXTENDS Integers, Sequences, FiniteSets, TLC

VARIABLES
    rawData,      \* the argument of cleanJsonForLLM
    cleanCall,    \* the outcome of the cleanJsonForLLM call
    jsonData,     \* the first argument of downloadJsonAsCsv
    fileArg,      \* the second argument of downloadJsonAsCsv (undefined: omitted)
    hostTimeZone, \* the time zone of the host, by its name
    hasDownload,  \* whether the browser's anchor element has the download attribute
    csvCall,      \* the outcome of the downloadJsonAsCsv call and its locals
    saved,        \* the files the browser was made to save, in order
    consoleErrors, \* the number of console.error diagnostics
    pc            \* where the caller is: "clean" or "export" before the call, "done" or "aborted" after it

vars == <<rawData, cleanCall, jsonData, fileArg, hostTimeZone, hasDownload, csvCall, saved, consoleErrors, pc>>

---------------------------------------------------------------------------
(* JavaScript values *)

Undef == [t |-> "undefined", s |-> << >>, n |-> 0, p |-> << >>]
Null == [t |-> "null", s |-> << >>, n |-> 0, p |-> << >>]
Bool(b) == [t |-> "bool", s |-> << >>, n |-> IF b THEN 1 ELSE 0, p |-> << >>]
Num(n) == [t |-> "num", s |-> << >>, n |-> n, p |-> << >>]
Str(s) == [t |-> "str", s |-> s, n |-> 0, p |-> << >>]
Arr(elems) == [t |-> "arr", s |-> << >>, n |-> 0, p |-> elems]
Obj(pairs) == [t |-> "obj", s |-> << >>, n |-> 0, p |-> pairs]

\* a built-in function, by its name
Fn(name) == [t |-> "fn", s |-> name, n |-> 0, p |-> << >>]

\* a built-in prototype object, by the text String() gives for it
Proto(text) == [t |-> "proto", s |-> text, n |-> 0, p |-> << >>]

\* an exception raised in place of a value, by its constructor's name
Thrown(kind) == [t |-> "throw", s |-> kind, n |-> 0, p |-> << >>]

\* v == null (v is null or undefined)
IsNullish(v) == v.t \in {"undefined", "null"}

\* ToBoolean(v), for the values of the model (no NaN)
Truthy(v) ==
    CASE v.t \in {"undefined", "null"} -> FALSE
      [] v.t \in {"bool", "num"} -> v.n # 0
      [] v.t = "str" -> Len(v.s) > 0
      [] OTHER -> TRUE

\* Array.isArray(v)
IsArray(v) == v.t = "arr"

---------------------------------------------------------------------------
(* Text *)

\* the character U+FEFF, the byte-order mark
BOM == "FEFF"

\* the characters U+0000 and U+000B (vertical tab)
NUL == "0000"
VT == "000B"

Digits == <<"0", "1", "2", "3", "4", "5", "6", "7", "8", "9">>

IsDigit(c) == \E i \in 1..10 : Digits[i] = c

DigitVal(c) == (CHOOSE i \in 1..10 : Digits[i] = c) - 1

RECURSIVE NatToStr(_)
NatToStr(n) == IF n < 10 THEN <<Digits[n + 1]>> ELSE NatToStr(n \div 10) \o <<Digits[(n % 10) + 1]>>

\* Number.prototype.toString for an integer
NumToStr(n) == IF n < 0 THEN <<"-">> \o NatToStr(0 - n) ELSE NatToStr(n)

\* String(num).padStart(w, '0') for num >= 0
RECURSIVE PadStart(_, _)
PadStart(s, w) == IF Len(s) >= w THEN s ELSE PadStart(<<"0">> \o s, w)

\* the decimal value of a run of digits
RECURSIVE StrToNat(_)
StrToNat(s) == IF Len(s) = 0 THEN 0 ELSE 10 * StrToNat(SubSeq(s, 1, Len(s) - 1)) + DigitVal(s[Len(s)])

Contains(s, c) == \E i \in 1..Len(s) : s[i] = c

\* s.replace(/c/g, r)
RECURSIVE ReplaceAll(_, _, _)
ReplaceAll(s, c, r) ==
    IF Len(s) = 0 THEN << >>
    ELSE (IF Head(s) = c THEN r ELSE <<Head(s)>>) \o ReplaceAll(Tail(s), c, r)

\* parts.join(sep) for a sequence of character sequences
RECURSIVE Join(_, _)
Join(parts, sep) ==
    IF Len(parts) = 0 THEN << >>
    ELSE IF Len(parts) = 1 THEN parts[1]
    ELSE parts[1] \o sep \o Join(Tail(parts), sep)

HasOwn(pairs, key) == \E i \in 1..Len(pairs) : pairs[i][1] = key

OwnValue(pairs, key) == pairs[CHOOSE i \in 1..Len(pairs) : pairs[i][1] = key][2]

\* whether String(v) raises a TypeError: the toString of an object is its own
\* property and not callable, and valueOf gives no primitive either (it is an
\* own property and not callable, or Object.prototype.valueOf, which returns
\* the object); an array raises when the text of an element does
RECURSIVE ToStrThrows(_)
ToStrThrows(v) ==
    CASE v.t = "obj" ->
            /\ HasOwn(v.p, <<"t","o","S","t","r","i","n","g">>) /\ OwnValue(v.p, <<"t","o","S","t","r","i","n","g">>).t # "fn"
            /\ HasOwn(v.p, <<"v","a","l","u","e","O","f">>) => OwnValue(v.p, <<"v","a","l","u","e","O","f">>).t # "fn"
      [] v.t = "arr" -> \E i \in 1..Len(v.p) : ~IsNullish(v.p[i]) /\ ToStrThrows(v.p[i])
      [] OTHER -> FALSE

\* String(v) when it does not raise; an array joins the text of its elements
\* with commas, null and undefined elements giving the empty text
RECURSIVE ToStr(_)
ToStr(v) ==
    CASE v.t = "undefined" -> <<"u","n","d","e","f","i","n","e","d">>
      [] v.t = "null" -> <<"n","u","l","l">>
      [] v.t = "bool" -> (IF v.n = 1 THEN <<"t","r","u","e">> ELSE <<"f","a","l","s","e">>)
      [] v.t = "num" -> NumToStr(v.n)
      [] v.t = "str" -> v.s
      [] v.t = "arr" ->
            Join([i \in 1..Len(v.p) |-> IF IsNullish(v.p[i]) THEN << >> ELSE ToStr(v.p[i])], <<",">>)
      [] v.t = "fn" -> <<"f","u","n","c","t","i","o","n"," ">> \o v.s \o <<"(",")"," ","{"," ","[","n","a","t","i","v","e"," ","c","o","d","e","]"," ","}">>
      [] v.t = "proto" -> v.s
      [] OTHER -> <<"[","o","b","j","e","c","t"," ","O","b","j","e","c","t","]">>

---------------------------------------------------------------------------
(* Property access *)

\* whether text a comes before text b, character by character
RECURSIVE TextBefore(_, _)
TextBefore(a, b) ==
    /\ Len(b) > 0
    /\ \/ Len(a) = 0
       \/ DigitVal(Head(a)) < DigitVal(Head(b))
       \/ Head(a) = Head(b) /\ TextBefore(Tail(a), Tail(b))

\* an array index: the decimal text, without a leading zero, of an integer
\* from 0 to 2^32 - 2
IsIndexKey(key) ==
    /\ Len(key) \in 1..10 /\ (\A i \in 1..Len(key) : IsDigit(key[i])) /\ (Len(key) = 1 \/ key[1] # "0")
    /\ Len(key) = 10 => TextBefore(key, <<"4","2","9","4","9","6","7","2","9","5">>)

\* whether v[key] raises a TypeError
GetThrows(v) == IsNullish(v)

\* the function-valued members of Object.prototype
ObjectPrototype == {
    <<"_","_","d","e","f","i","n","e","G","e","t","t","e","r","_","_">>, <<"_","_","d","e","f","i","n","e","S","e","t","t","e","r","_","_">>, <<"_","_","l","o","o","k","u","p","G","e","t","t","e","r","_","_">>, <<"_","_","l","o","o","k","u","p","S","e","t","t","e","r","_","_">>,
    <<"h","a","s","O","w","n","P","r","o","p","e","r","t","y">>, <<"i","s","P","r","o","t","o","t","y","p","e","O","f">>, <<"p","r","o","p","e","r","t","y","I","s","E","n","u","m","e","r","a","b","l","e">>, <<"t","o","L","o","c","a","l","e","S","t","r","i","n","g">>,
    <<"t","o","S","t","r","i","n","g">>, <<"v","a","l","u","e","O","f">> }

\* the function-valued members of String.prototype
StringPrototype == {
    <<"a","n","c","h","o","r">>, <<"a","t">>, <<"b","i","g">>, <<"b","l","i","n","k">>, <<"b","o","l","d">>, <<"c","h","a","r","A","t">>, <<"c","h","a","r","C","o","d","e","A","t">>, <<"c","o","d","e","P","o","i","n","t","A","t">>,
    <<"c","o","n","c","a","t">>, <<"e","n","d","s","W","i","t","h">>, <<"f","i","x","e","d">>, <<"f","o","n","t","c","o","l","o","r">>, <<"f","o","n","t","s","i","z","e">>, <<"i","n","c","l","u","d","e","s">>, <<"i","n","d","e","x","O","f">>,
    <<"i","s","W","e","l","l","F","o","r","m","e","d">>, <<"i","t","a","l","i","c","s">>, <<"l","a","s","t","I","n","d","e","x","O","f">>, <<"l","i","n","k">>, <<"l","o","c","a","l","e","C","o","m","p","a","r","e">>, <<"m","a","t","c","h">>,
    <<"m","a","t","c","h","A","l","l">>, <<"n","o","r","m","a","l","i","z","e">>, <<"p","a","d","E","n","d">>, <<"p","a","d","S","t","a","r","t">>, <<"r","e","p","e","a","t">>, <<"r","e","p","l","a","c","e">>, <<"r","e","p","l","a","c","e","A","l","l">>,
    <<"s","e","a","r","c","h">>, <<"s","l","i","c","e">>, <<"s","m","a","l","l">>, <<"s","p","l","i","t">>, <<"s","t","a","r","t","s","W","i","t","h">>, <<"s","t","r","i","k","e">>, <<"s","u","b">>, <<"s","u","b","s","t","r">>,
    <<"s","u","b","s","t","r","i","n","g">>, <<"s","u","p">>, <<"t","o","L","o","c","a","l","e","L","o","w","e","r","C","a","s","e">>, <<"t","o","L","o","c","a","l","e","U","p","p","e","r","C","a","s","e">>, <<"t","o","L","o","w","e","r","C","a","s","e">>,
    <<"t","o","S","t","r","i","n","g">>, <<"t","o","U","p","p","e","r","C","a","s","e">>, <<"t","o","W","e","l","l","F","o","r","m","e","d">>, <<"t","r","i","m">>, <<"t","r","i","m","E","n","d">>, <<"t","r","i","m","L","e","f","t">>,
    <<"t","r","i","m","R","i","g","h","t">>, <<"t","r","i","m","S","t","a","r","t">>, <<"v","a","l","u","e","O","f">> }

\* the function-valued members of Array.prototype
ArrayPrototype == {
    <<"a","t">>, <<"c","o","n","c","a","t">>, <<"c","o","p","y","W","i","t","h","i","n">>, <<"e","n","t","r","i","e","s">>, <<"e","v","e","r","y">>, <<"f","i","l","l">>, <<"f","i","l","t","e","r">>, <<"f","i","n","d">>,
    <<"f","i","n","d","I","n","d","e","x">>, <<"f","i","n","d","L","a","s","t">>, <<"f","i","n","d","L","a","s","t","I","n","d","e","x">>, <<"f","l","a","t">>, <<"f","l","a","t","M","a","p">>, <<"f","o","r","E","a","c","h">>,
    <<"i","n","c","l","u","d","e","s">>, <<"i","n","d","e","x","O","f">>, <<"j","o","i","n">>, <<"k","e","y","s">>, <<"l","a","s","t","I","n","d","e","x","O","f">>, <<"m","a","p">>, <<"p","o","p">>, <<"p","u","s","h">>,
    <<"r","e","d","u","c","e">>, <<"r","e","d","u","c","e","R","i","g","h","t">>, <<"r","e","v","e","r","s","e">>, <<"s","h","i","f","t">>, <<"s","l","i","c","e">>, <<"s","o","m","e">>, <<"s","o","r","t">>, <<"s","p","l","i","c","e">>,
    <<"t","o","L","o","c","a","l","e","S","t","r","i","n","g">>, <<"t","o","R","e","v","e","r","s","e","d">>, <<"t","o","S","o","r","t","e","d">>, <<"t","o","S","p","l","i","c","e","d">>, <<"t","o","S","t","r","i","n","g">>, <<"u","n","s","h","i","f","t">>,
    <<"v","a","l","u","e","s">>, <<"w","i","t","h">> }

\* the function-valued members of Number.prototype
NumberPrototype == {
    <<"t","o","E","x","p","o","n","e","n","t","i","a","l">>, <<"t","o","F","i","x","e","d">>, <<"t","o","L","o","c","a","l","e","S","t","r","i","n","g">>, <<"t","o","P","r","e","c","i","s","i","o","n">>, <<"t","o","S","t","r","i","n","g">>, <<"v","a","l","u","e","O","f">> }

\* the function-valued members of Boolean.prototype
BooleanPrototype == { <<"t","o","S","t","r","i","n","g">>, <<"v","a","l","u","e","O","f">> }

\* the members a value of type t inherits, its own prototype's and Object.prototype's
PrototypeMembers(t) ==
    ObjectPrototype \cup
        (CASE t = "str" -> StringPrototype
           [] t = "arr" -> ArrayPrototype
           [] t = "num" -> NumberPrototype
           [] t = "bool" -> BooleanPrototype
           [] OTHER -> {})

\* the name of the constructor of a value of type t
ConstructorName(t) ==
    CASE t = "str" -> <<"S","t","r","i","n","g">>
      [] t = "arr" -> <<"A","r","r","a","y">>
      [] t = "num" -> <<"N","u","m","b","e","r">>
      [] t = "bool" -> <<"B","o","o","l","e","a","n">>
      [] OTHER -> <<"O","b","j","e","c","t">>

\* the prototype of a value of type t, as String() shows it
PrototypeOf(t) ==
    CASE t = "str" -> Proto(<< >>)
      [] t = "arr" -> Proto(<< >>)
      [] t = "num" -> Proto(<<"0">>)
      [] t = "bool" -> Proto(<<"f","a","l","s","e">>)
      [] OTHER -> Proto(<<"[","o","b","j","e","c","t"," ","O","b","j","e","c","t","]">>)

\* the name a built-in function reports: trimLeft and trimRight are aliases
FunctionName(key) ==
    IF key = <<"t","r","i","m","L","e","f","t">> THEN <<"t","r","i","m","S","t","a","r","t">>
    ELSE IF key = <<"t","r","i","m","R","i","g","h","t">> THEN <<"t","r","i","m","E","n","d">>
    ELSE key

\* v[key] when key is no own property of v: the inherited member, if any
Inherited(t, key) ==
    IF key = <<"_","_","p","r","o","t","o","_","_">> THEN PrototypeOf(t)
    ELSE IF key = <<"c","o","n","s","t","r","u","c","t","o","r">> THEN Fn(ConstructorName(t))
    ELSE IF key \in PrototypeMembers(t) /\ (key \in {<<"t","r","i","m","L","e","f","t">>, <<"t","r","i","m","R","i","g","h","t">>} => t = "str")
    THEN Fn(FunctionName(key))
    ELSE Undef

\* v[key] for a v that is neither null nor undefined
Get(v, key) ==
    CASE v.t = "obj" -> (IF HasOwn(v.p, key) THEN OwnValue(v.p, key) ELSE Inherited(v.t, key))
      [] v.t = "arr" ->
            IF key = <<"l","e","n","g","t","h">> THEN Num(Len(v.p))
            ELSE IF IsIndexKey(key) /\ Len(key) < 10 /\ StrToNat(key) < Len(v.p)
            THEN v.p[StrToNat(key) + 1]
            ELSE Inherited(v.t, key)
      [] v.t = "str" ->
            IF key = <<"l","e","n","g","t","h">> THEN Num(Len(v.s))
            ELSE IF IsIndexKey(key) /\ Len(key) < 10 /\ StrToNat(key) < Len(v.s)
            THEN Str(<<v.s[StrToNat(key) + 1]>>)
            ELSE Inherited(v.t, key)
      [] v.t \in {"num", "bool"} -> Inherited(v.t, key)
      [] OTHER -> Undef

\* obj[key] = val: an existing key keeps its place, a new key is created last
SetProp(pairs, key, val) ==
    IF HasOwn(pairs, key)
    THEN [i \in 1..Len(pairs) |-> IF pairs[i][1] = key THEN <<key, val>> ELSE pairs[i]]
    ELSE Append(pairs, <<key, val>>)

\* the array indices among the keys, the smallest number first
IndexKeys(pairs) ==
    LET S == {pairs[i][1] : i \in {i \in 1..Len(pairs) : IsIndexKey(pairs[i][1])}}
    IN [k \in 1..Cardinality(S) |->
            CHOOSE a \in S : Cardinality({b \in S : Len(b) < Len(a) \/ (Len(b) = Len(a) /\ TextBefore(b, a))}) = k - 1]

\* Object.keys(v) for an object or an array: the array indices in ascending
\* order, then the other keys in the order of their creation
ObjectKeys(v) ==
    IF v.t = "arr" THEN [i \in 1..Len(v.p) |-> NatToStr(i - 1)]
    ELSE LET names == SelectSeq(v.p, LAMBDA pair : ~IsIndexKey(pair[1]))
         IN IndexKeys(v.p) \o [i \in 1..Len(names) |-> names[i][1]]

---------------------------------------------------------------------------
(* Date: a time value is [nan, day, ms], day counted from 1970-01-01 and   *)
(* ms the milliseconds within the day, all in UTC.                         *)

NaNTime == [nan |-> TRUE, day |-> 0, ms |-> 0]

TimeOf(day, ms) == [nan |-> FALSE, day |-> day, ms |-> ms]

\* the day number of the proleptic Gregorian date y-m-d (m in 1..12)
DaysFromCivil(y, m, d) ==
    LET yy == IF m <= 2 THEN y - 1 ELSE y
        era == yy \div 400
        yoe == yy - era * 400
        mp == IF m > 2 THEN m - 3 ELSE m + 9
        doy == (153 * mp + 2) \div 5 + d - 1
        doe == yoe * 365 + yoe \div 4 - yoe \div 100 + doy
    IN era * 146097 + doe - 719468

\* the Gregorian date [y, m, d] of a day number
CivilFromDays(day) ==
    LET z == day + 719468
        era == z \div 146097
        doe == z - era * 146097
        yoe == (doe - doe \div 1460 + doe \div 36524 - doe \div 146096) \div 365
        doy == doe - (365 * yoe + yoe \div 4 - yoe \div 100)
        mp == (5 * doy + 2) \div 153
        d == doy - (153 * mp + 2) \div 5 + 1
        m == IF mp < 10 THEN mp + 3 ELSE mp - 9
    IN [y |-> (yoe + era * 400) + (IF m <= 2 THEN 1 ELSE 0), m |-> m, d |-> d]

\* day and ms brought back to 0 <= ms < one day
MakeTime(day, ms) == TimeOf(day + ms \div 86400000, ms % 86400000)

\* TimeClip: a time value more than 100,000,000 days from the epoch is NaN
TimeClip(tv) ==
    IF tv.nan THEN tv
    ELSE IF tv.day < 0 - 100000000 \/ tv.day > 100000000 THEN NaNTime
    ELSE IF tv.day = 100000000 /\ tv.ms > 0 THEN NaNTime
    ELSE tv

\* whether the time day, ms comes before the time day0, ms0
IsBefore(day, ms, day0, ms0) == day < day0 \/ (day = day0 /\ ms < ms0)

\* the first Sunday on or after a day; (day + 4) % 7 is the day of the week
\* of a day number, 0 for Sunday
SundayFrom(day) == day + ((7 - ((day + 4) % 7)) % 7)

\* the last Sunday of a month before December
LastSunday(y, m) == SundayFrom(DaysFromCivil(y, m + 1, 1) - 7)

\* daylight saving time in New York in the local year y: the days on which
\* it begins and ends, both at 02:00 on the clock, or << >> for a year
\* without it; the war time of 1942 to 1945 is one period
NewYorkDaylight(y) ==
    CASE y \in 1918..1920 -> <<LastSunday(y, 3), LastSunday(y, 10)>>
      [] y \in 1921..1941 \/ y \in 1946..1954 -> <<LastSunday(y, 4), LastSunday(y, 9)>>
      [] y \in 1942..1945 -> <<DaysFromCivil(1942, 2, 9), DaysFromCivil(1945, 9, 30)>>
      [] y \in 1955..1973 \/ y \in 1976..1986 -> <<LastSunday(y, 4), LastSunday(y, 10)>>
      [] y = 1974 -> <<DaysFromCivil(1974, 1, 6), LastSunday(y, 10)>>
      [] y = 1975 -> <<DaysFromCivil(1975, 2, 23), LastSunday(y, 10)>>
      [] y \in 1987..2006 -> <<SundayFrom(DaysFromCivil(y, 4, 1)), LastSunday(y, 10)>>
      [] y >= 2007 -> <<SundayFrom(DaysFromCivil(y, 3, 8)), SundayFrom(DaysFromCivil(y, 11, 1))>>
      [] OTHER -> << >>

\* the offset from UTC, in seconds, of the local time day, ms in New York:
\* local mean time (-4:56:02) until noon of 1883-11-18 in standard time,
\* then -5:00, and -4:00 in daylight saving time. A local time that the
\* clocks skip or show twice has the offset from before the change: the
\* hour from 02:00 skipped in spring is standard time, the hour from 01:00
\* shown twice in autumn is daylight saving time.
NewYorkOffset(day, ms) ==
    IF IsBefore(day, ms, DaysFromCivil(1883, 11, 18), 43438000) THEN 0 - 17762
    ELSE LET period == NewYorkDaylight(CivilFromDays(day).y)
         IN IF period # << >> /\ ~IsBefore(day, ms, period[1], 10800000)
                /\ IsBefore(day, ms, period[2], 7200000)
            THEN 0 - 14400
            ELSE 0 - 18000

\* the offset of local time from UTC, in seconds, that the host's time zone
\* gives for the local time day, ms
LocalTZA(day, ms) ==
    IF hostTimeZone = "America/New_York" THEN NewYorkOffset(day, ms) ELSE 0

(* Date.parse, as V8 does it: the text is cut into tokens, the tokens are  *)
(* read as an ECMAScript date-time string as far as they go, and whatever  *)
(* is left goes to the legacy reader.                                      *)

\* white space: space, \t, \n, \r, \f, U+000B, U+00A0, U+FEFF and the other
\* space separators; not the line and paragraph separators U+2028 and U+2029
WhiteSpaceChars ==
    {<<" ","\t","\n","\r","\f">>[i] : i \in 1..5}
    \cup {VT, "00A0", BOM, "1680", "2000", "2001", "2002", "2003", "2004",
          "2005", "2006", "2007", "2008", "2009", "200A", "202F", "205F", "3000"}

\* the ASCII characters below 'A'
BelowA ==
    {<<" ","!","\"","#","$","%","&","'","(",")","*","+",",","-",".","/","0","1","2","3","4","5","6","7","8","9",":",";","<","=",">","?","@","\t","\n","\r","\f">>[i] : i \in 1..37}
    \cup {NUL, "0001", "0002", "0003", "0004", "0005", "0006", "0007", "0008", VT,
          "000E", "000F", "0010", "0011", "0012", "0013", "0014", "0015", "0016", "0017",
          "0018", "0019", "001A", "001B", "001C", "001D", "001E", "001F"}

\* a character of a word: 'A' or above, and no white space
IsWordChar(c) == c \notin BelowA /\ c \notin WhiteSpaceChars

UpperCase == <<"A","B","C","D","E","F","G","H","I","J","K","L","M","N","O","P","Q","R","S","T","U","V","W","X","Y","Z">>

AsciiAlphaToLower(c) ==
    IF \E i \in 1..26 : UpperCase[i] = c
    THEN <<"a","b","c","d","e","f","g","h","i","j","k","l","m","n","o","p","q","r","s","t","u","v","w","x","y","z">>[CHOOSE i \in 1..26 : UpperCase[i] = c]
    ELSE c

\* the keywords: <<prefix, type, value>>
KeywordTable == {
    <<<<"j","a","n">>, "month", 1>>, <<<<"f","e","b">>, "month", 2>>, <<<<"m","a","r">>, "month", 3>>,
    <<<<"a","p","r">>, "month", 4>>, <<<<"m","a","y">>, "month", 5>>, <<<<"j","u","n">>, "month", 6>>,
    <<<<"j","u","l">>, "month", 7>>, <<<<"a","u","g">>, "month", 8>>, <<<<"s","e","p">>, "month", 9>>,
    <<<<"o","c","t">>, "month", 10>>, <<<<"n","o","v">>, "month", 11>>, <<<<"d","e","c">>, "month", 12>>,
    <<<<"a","m">>, "ampm", 0>>, <<<<"p","m">>, "ampm", 12>>,
    <<<<"u","t">>, "zone", 0>>, <<<<"u","t","c">>, "zone", 0>>, <<<<"z">>, "zone", 0>>, <<<<"g","m","t">>, "zone", 0>>,
    <<<<"c","d","t">>, "zone", 0 - 5>>, <<<<"c","s","t">>, "zone", 0 - 6>>, <<<<"e","d","t">>, "zone", 0 - 4>>,
    <<<<"e","s","t">>, "zone", 0 - 5>>, <<<<"m","d","t">>, "zone", 0 - 6>>, <<<<"m","s","t">>, "zone", 0 - 7>>,
    <<<<"p","d","t">>, "zone", 0 - 7>>, <<<<"p","s","t">>, "zone", 0 - 8>>,
    <<<<"t">>, "tsep", 0>> }

\* tokens: [k, n, len, c, kw]
NumberToken(n, len) == [k |-> "num", n |-> n, len |-> len, c |-> "", kw |-> ""]
SymbolToken(c) == [k |-> "sym", n |-> 0, len |-> 1, c |-> c, kw |-> ""]
KeywordToken(type, value, len) == [k |-> "kw", n |-> value, len |-> len, c |-> "", kw |-> type]
WhiteSpaceToken == [k |-> "ws", n |-> 0, len |-> 0, c |-> "", kw |-> ""]
UnknownToken == [k |-> "unk", n |-> 0, len |-> 0, c |-> "", kw |-> ""]

\* the first position from i on whose character does not satisfy the test
RECURSIVE DigitsEnd(_, _)
DigitsEnd(s, i) == IF i <= Len(s) /\ IsDigit(s[i]) THEN DigitsEnd(s, i + 1) ELSE i

RECURSIVE WordEnd(_, _)
WordEnd(s, i) == IF i <= Len(s) /\ IsWordChar(s[i]) THEN WordEnd(s, i + 1) ELSE i

RECURSIVE WhiteSpaceEnd(_, _)
WhiteSpaceEnd(s, i) == IF i <= Len(s) /\ s[i] \in WhiteSpaceChars THEN WhiteSpaceEnd(s, i + 1) ELSE i

\* SkipParentheses: from a '(' to the position after its matching ')', or the end
RECURSIVE ParenthesesEnd(_, _, _)
ParenthesesEnd(s, i, balance) ==
    LET b == IF s[i] = ")" THEN balance - 1 ELSE IF s[i] = "(" THEN balance + 1 ELSE balance
    IN IF b > 0 /\ i + 1 <= Len(s) /\ s[i + 1] # NUL THEN ParenthesesEnd(s, i + 1, b) ELSE i + 1

RECURSIVE SkipZeros(_)
SkipZeros(d) == IF Len(d) > 0 /\ Head(d) = "0" THEN SkipZeros(Tail(d)) ELSE d

\* ReadUnsignedNumeral: leading zeros skipped, at most 9 significant digits used
ReadUnsignedNumeral(d) ==
    LET sig == SkipZeros(d)
    IN StrToNat(SubSeq(sig, 1, IF Len(sig) < 9 THEN Len(sig) ELSE 9))

\* the keyword a word stands for: its first three letters in lower case are
\* looked up; only a month name may be longer than its keyword
Keyword(word) ==
    LET prefix == [i \in 1..(IF Len(word) < 3 THEN Len(word) ELSE 3) |-> AsciiAlphaToLower(word[i])]
        found == {e \in KeywordTable : e[1] = prefix /\ (Len(word) <= 3 \/ e[2] = "month")}
    IN IF found = {} THEN KeywordToken("invalid", 0, Len(word))
       ELSE LET e == CHOOSE e \in found : TRUE IN KeywordToken(e[2], e[3], Len(word))

\* the tokens of s from position i on; the input ends at its end or at a U+0000
RECURSIVE Scan(_, _)
Scan(s, i) ==
    IF i > Len(s) \/ s[i] = NUL THEN << >>
    ELSE IF IsDigit(s[i])
    THEN LET j == DigitsEnd(s, i)
         IN <<NumberToken(ReadUnsignedNumeral(SubSeq(s, i, j - 1)), j - i)>> \o Scan(s, j)
    ELSE IF s[i] \in {":", "-", "+", ".", ")"} THEN <<SymbolToken(s[i])>> \o Scan(s, i + 1)
    ELSE IF IsWordChar(s[i])
    THEN LET j == WordEnd(s, i) IN <<Keyword(SubSeq(s, i, j - 1))>> \o Scan(s, j)
    ELSE IF s[i] \in WhiteSpaceChars THEN <<WhiteSpaceToken>> \o Scan(s, WhiteSpaceEnd(s, i))
    ELSE IF s[i] = "(" THEN <<UnknownToken>> \o Scan(s, ParenthesesEnd(s, i, 0))
    ELSE <<UnknownToken>> \o Scan(s, i + 1)

\* the token at position p, the end of input past the last
Tok(T, p) == IF p \in 1..Len(T) THEN T[p] ELSE [k |-> "end", n |-> 0, len |-> 0, c |-> "", kw |-> ""]

IsSymbol(t, c) == t.k = "sym" /\ t.c = c
IsAsciiSign(t) == IsSymbol(t, "+") \/ IsSymbol(t, "-")
SignOf(t) == IF t.c = "+" THEN 1 ELSE 0 - 1
IsNumber(t) == t.k = "num"
IsFixedNumber(t, len) == t.k = "num" /\ t.len = len
IsKeywordZ(t) == t.k = "kw" /\ t.kw = "zone" /\ t.len = 1

IsMonth(n) == n \in 1..12
IsDay(n) == n \in 1..31
IsHour(n) == n \in 0..23
IsMinute(n) == n \in 0..59
IsSecond(n) == n \in 0..59
IsMillisecond(n) == n \in 0..999

\* ReadMilliseconds: the first three digits of a fraction
ReadMilliseconds(t) ==
    IF t.len = 1 THEN t.n * 100
    ELSE IF t.len = 2 THEN t.n * 10
    ELSE IF t.len = 3 THEN t.n
    ELSE LET len == IF t.len > 9 THEN 9 ELSE t.len
             factor == CASE len = 4 -> 10 [] len = 5 -> 100 [] len = 6 -> 1000
                         [] len = 7 -> 10000 [] len = 8 -> 100000 [] OTHER -> 1000000
         IN t.n \div factor

\* the composers: the numbers of the day, the named month (0: none), the
\* numbers of the time, the AM/PM offset (-1: none), the zone's sign
\* (0: none), hour and minute (-1: none)
NoDate == [day |-> << >>, named |-> 0, iso |-> FALSE, time |-> << >>, ho |-> 0 - 1,
           tzs |-> 0, tzh |-> 0 - 1, tzm |-> 0 - 1]

\* TimeZoneComposer::Set(offset in hours)
SetZone(st, hours) ==
    [st EXCEPT !.tzs = IF hours < 0 THEN 0 - 1 ELSE 1,
               !.tzh = IF hours < 0 THEN 0 - hours ELSE hours,
               !.tzm = 0]

\* the outcome of a reader: "end" (all read), "legacy" (go on with the
\* legacy reader at token p) or "invalid"
Outcome(r, p, st) == [r |-> r, p |-> p, st |-> st]

\* the year of a date-time string: YYYY or a sign and six digits
ES5Year(T) ==
    IF IsAsciiSign(Tok(T, 1))
    THEN IF ~IsFixedNumber(Tok(T, 2), 6) THEN Outcome("legacy", 1, NoDate)
         ELSE IF SignOf(Tok(T, 1)) < 0 /\ Tok(T, 2).n = 0 THEN Outcome("legacy", 3, NoDate)
         ELSE Outcome("end", 3, [NoDate EXCEPT !.day = <<SignOf(Tok(T, 1)) * Tok(T, 2).n>>])
    ELSE IF IsFixedNumber(Tok(T, 1), 4)
    THEN Outcome("end", 2, [NoDate EXCEPT !.day = <<Tok(T, 1).n>>])
    ELSE Outcome("legacy", 1, NoDate)

\* the optional -MM and -DD after the year
ES5MonthDay(T, p, st) ==
    IF ~IsSymbol(Tok(T, p), "-") THEN Outcome("end", p, st)
    ELSE IF ~IsFixedNumber(Tok(T, p + 1), 2) \/ ~IsMonth(Tok(T, p + 1).n)
    THEN Outcome("legacy", p + 1, st)
    ELSE LET st2 == [st EXCEPT !.day = Append(st.day, Tok(T, p + 1).n)]
         IN IF ~IsSymbol(Tok(T, p + 2), "-") THEN Outcome("end", p + 2, st2)
            ELSE IF ~IsFixedNumber(Tok(T, p + 3), 2) \/ ~IsDay(Tok(T, p + 3).n)
            THEN Outcome("legacy", p + 3, st2)
            ELSE Outcome("end", p + 4, [st2 EXCEPT !.day = Append(st2.day, Tok(T, p + 3).n)])

\* HH:mm[:ss[.sss]] after the T at token p
ES5Clock(T, p, st) ==
    LET h == Tok(T, p + 1)
        m == Tok(T, p + 3)
        s == Tok(T, p + 5)
        f == Tok(T, p + 7)
        is24 == h.n = 24
    IN IF ~IsFixedNumber(h, 2) \/ h.n > 24 THEN Outcome("invalid", p, st)
       ELSE IF ~IsSymbol(Tok(T, p + 2), ":") THEN Outcome("invalid", p, st)
       ELSE IF ~IsFixedNumber(m, 2) \/ ~IsMinute(m.n) \/ (is24 /\ m.n > 0) THEN Outcome("invalid", p, st)
       ELSE IF ~IsSymbol(Tok(T, p + 4), ":") THEN Outcome("end", p + 4, [st EXCEPT !.time = <<h.n, m.n>>])
       ELSE IF ~IsFixedNumber(s, 2) \/ ~IsSecond(s.n) \/ (is24 /\ s.n > 0) THEN Outcome("invalid", p, st)
       ELSE IF ~IsSymbol(Tok(T, p + 6), ".") THEN Outcome("end", p + 6, [st EXCEPT !.time = <<h.n, m.n, s.n>>])
       ELSE IF ~IsNumber(f) \/ (is24 /\ f.n > 0) THEN Outcome("invalid", p, st)
       ELSE Outcome("end", p + 8, [st EXCEPT !.time = <<h.n, m.n, s.n, ReadMilliseconds(f)>>])

\* the optional zone after the time: Z, +hh:mm, -hh:mm, +hhmm or -hhmm
ES5Zone(T, p, st) ==
    IF IsKeywordZ(Tok(T, p)) THEN Outcome("end", p + 1, SetZone(st, 0))
    ELSE IF ~IsAsciiSign(Tok(T, p)) THEN Outcome("end", p, st)
    ELSE LET signed == [st EXCEPT !.tzs = SignOf(Tok(T, p))]
             z == Tok(T, p + 1)
             zm == Tok(T, p + 3)
         IN IF IsFixedNumber(z, 4)
            THEN IF ~IsHour(z.n \div 100) \/ ~IsMinute(z.n % 100) THEN Outcome("invalid", p, st)
                 ELSE Outcome("end", p + 2, [signed EXCEPT !.tzh = z.n \div 100, !.tzm = z.n % 100])
            ELSE IF ~IsFixedNumber(z, 2) \/ ~IsHour(z.n) THEN Outcome("invalid", p, st)
            ELSE IF ~IsSymbol(Tok(T, p + 2), ":") THEN Outcome("invalid", p, st)
            ELSE IF ~IsFixedNumber(zm, 2) \/ ~IsMinute(zm.n) THEN Outcome("invalid", p, st)
            ELSE Outcome("end", p + 4, [signed EXCEPT !.tzh = z.n, !.tzm = zm.n])

\* the end of a date-time string: nothing may follow the zone
ES5End(T, zone) ==
    IF zone.r # "end" THEN zone
    ELSE IF Tok(T, zone.p).k # "end" THEN Outcome("invalid", zone.p, zone.st)
    ELSE Outcome("end", zone.p, [zone.st EXCEPT !.iso = TRUE])

\* after the time: the zone
ES5AfterClock(T, clock) ==
    IF clock.r # "end" THEN clock ELSE ES5End(T, ES5Zone(T, clock.p, clock.st))

\* after the date: a T and the time, or the end of a date-only form, which
\* is UTC; anything else goes to the legacy reader
ES5AfterDate(T, md) ==
    IF md.r # "end" THEN md
    ELSE IF Tok(T, md.p).k = "kw" /\ Tok(T, md.p).kw = "tsep"
    THEN ES5AfterClock(T, ES5Clock(T, md.p, md.st))
    ELSE IF Tok(T, md.p).k # "end" THEN Outcome("legacy", md.p, md.st)
    ELSE Outcome("end", md.p, [SetZone(md.st, 0) EXCEPT !.iso = TRUE])

\* after the year: the month and the day
ES5AfterYear(T, y) ==
    IF y.r # "end" THEN y ELSE ES5AfterDate(T, ES5MonthDay(T, y.p, y.st))

\* ParseES5DateTime: a date-only form is UTC, a date-time form without a
\* zone stays local
ParseES5DateTime(T) == ES5AfterYear(T, ES5Year(T))

\* TimeComposer::IsExpecting
TimeIsExpecting(st, n) ==
    \/ Len(st.time) = 1 /\ IsMinute(n)
    \/ Len(st.time) = 2 /\ IsSecond(n)
    \/ Len(st.time) = 3 /\ IsMillisecond(n)

\* TimeComposer::AddFinal: the number, then zeros up to four
AddFinal(time, n) ==
    IF Len(time) >= 4 THEN time
    ELSE [i \in 1..4 |-> IF i <= Len(time) THEN time[i] ELSE IF i = Len(time) + 1 THEN n ELSE 0]

\* TimeZoneComposer::IsExpecting and IsUTC
ZoneIsExpecting(st, n) == st.tzh # 0 - 1 /\ st.tzm = 0 - 1 /\ IsMinute(n)
ZoneIsUTC(st) == st.tzh = 0 /\ st.tzm = 0

\* a number token at p in the legacy reader
LegacyNumber(T, p, st) ==
    LET n == Tok(T, p).n
        dot == IsSymbol(Tok(T, p + 1), ".")
        q == IF dot THEN p + 2 ELSE p + 1
    IN IF IsSymbol(Tok(T, p + 1), ":")
       THEN IF IsSymbol(Tok(T, p + 2), ":")
            THEN IF Len(st.time) > 0 THEN Outcome("invalid", p, st)
                 ELSE Outcome("legacy", p + 3, [st EXCEPT !.time = <<n, 0>>])
            ELSE IF Len(st.time) >= 4 THEN Outcome("invalid", p, st)
                 ELSE Outcome("legacy", IF IsSymbol(Tok(T, p + 2), ".") THEN p + 3 ELSE p + 2,
                              [st EXCEPT !.time = Append(st.time, n)])
       ELSE IF dot /\ TimeIsExpecting(st, n)
       THEN IF ~IsNumber(Tok(T, q)) THEN Outcome("invalid", p, st)
            ELSE Outcome("legacy", q + 1,
                         [st EXCEPT !.time = AddFinal(Append(st.time, n), ReadMilliseconds(Tok(T, q)))])
       ELSE IF ZoneIsExpecting(st, n) THEN Outcome("legacy", q, [st EXCEPT !.tzm = n])
       ELSE IF TimeIsExpecting(st, n)
       THEN IF Tok(T, q).k \in {"end", "ws"} \/ IsKeywordZ(Tok(T, q)) \/ IsAsciiSign(Tok(T, q))
            THEN Outcome("legacy", q, [st EXCEPT !.time = AddFinal(st.time, n)])
            ELSE Outcome("invalid", p, st)
       ELSE IF Len(st.day) >= 3 THEN Outcome("invalid", p, st)
       ELSE Outcome("legacy", IF IsSymbol(Tok(T, q), "-") THEN q + 1 ELSE q,
                    [st EXCEPT !.day = Append(st.day, n)])

\* a word at p in the legacy reader
LegacyKeyword(T, p, st, hasReadNumber) ==
    LET t == Tok(T, p)
    IN IF t.kw = "ampm" /\ Len(st.time) > 0 THEN Outcome("legacy", p + 1, [st EXCEPT !.ho = t.n])
       ELSE IF t.kw = "month"
       THEN Outcome("legacy", IF IsSymbol(Tok(T, p + 1), "-") THEN p + 2 ELSE p + 1,
                    [st EXCEPT !.named = t.n])
       ELSE IF t.kw = "zone" /\ hasReadNumber THEN Outcome("legacy", p + 1, SetZone(st, t.n))
       ELSE IF hasReadNumber \/ IsNumber(Tok(T, p + 1)) THEN Outcome("invalid", p, st)
       ELSE Outcome("legacy", p + 1, st)

\* a sign at p after a time or a UTC zone name: the offset from UTC
LegacyOffset(T, p, st) ==
    LET hasNumber == IsNumber(Tok(T, p + 1))
        n == IF hasNumber THEN Tok(T, p + 1).n ELSE 0
        length == IF hasNumber THEN Tok(T, p + 1).len ELSE 0
        q == IF hasNumber THEN p + 2 ELSE p + 1
        signed == [st EXCEPT !.tzs = SignOf(Tok(T, p))]
    IN IF IsSymbol(Tok(T, q), ":") THEN Outcome("legacy", q, [signed EXCEPT !.tzh = n, !.tzm = 0 - 1])
       ELSE IF length \in {1, 2} THEN Outcome("legacy", q, [signed EXCEPT !.tzh = n, !.tzm = 0])
       ELSE IF length \in {3, 4}
       THEN Outcome("legacy", q, [signed EXCEPT !.tzh = n \div 100, !.tzm = n % 100])
       ELSE Outcome("invalid", p, st)

\* one token of the legacy reader
LegacyStep(T, p, st, hasReadNumber) ==
    IF IsNumber(T[p]) THEN LegacyNumber(T, p, st)
    ELSE IF T[p].k = "kw" THEN LegacyKeyword(T, p, st, hasReadNumber)
    ELSE IF IsAsciiSign(T[p]) /\ (ZoneIsUTC(st) \/ Len(st.time) > 0) THEN LegacyOffset(T, p, st)
    ELSE IF (IsAsciiSign(T[p]) \/ IsSymbol(T[p], ")")) /\ hasReadNumber THEN Outcome("invalid", p, st)
    ELSE Outcome("legacy", p + 1, st)

\* whether the token at p counts as a number read
ReadsNumber(T, p, st) ==
    IsNumber(T[p]) \/ (T[p].k # "kw" /\ IsAsciiSign(T[p]) /\ (ZoneIsUTC(st) \/ Len(st.time) > 0))

\* the legacy reader, from token p on
RECURSIVE LegacyParse(_, _, _, _)
RECURSIVE LegacyNext(_, _, _)
LegacyNext(T, step, hasReadNumber) ==
    IF step.r = "invalid" THEN step ELSE LegacyParse(T, step.p, step.st, hasReadNumber)

LegacyParse(T, p, st, hasReadNumber) ==
    IF p > Len(T) THEN Outcome("end", p, st)
    ELSE LegacyNext(T, LegacyStep(T, p, st, hasReadNumber), hasReadNumber \/ ReadsNumber(T, p, st))

\* DayComposer::Write: [ok, y, m, d]; the numbers missing are 1, a year
\* below 100 outside a date-time string is of 2000-2049 or 1950-1999
DayWrite(st) ==
    LET comp == [i \in 1..3 |-> IF i <= Len(st.day) THEN st.day[i] ELSE 1]
        ymd == IF st.named = 0
               THEN IF st.iso \/ ~IsDay(comp[1])
                    THEN [y |-> comp[1], m |-> comp[2], d |-> comp[3]]
                    ELSE [y |-> comp[3], m |-> comp[1], d |-> comp[2]]
               ELSE IF ~IsDay(comp[1])
                    THEN [y |-> comp[1], m |-> st.named, d |-> comp[2]]
                    ELSE [y |-> comp[2], m |-> st.named, d |-> comp[1]]
        year == IF st.iso THEN ymd.y
                ELSE IF ymd.y \in 0..49 THEN ymd.y + 2000
                ELSE IF ymd.y \in 50..99 THEN ymd.y + 1900
                ELSE ymd.y
    IN [ok |-> Len(st.day) >= 1 /\ IsMonth(ymd.m) /\ IsDay(ymd.d), y |-> year, m |-> ymd.m, d |-> ymd.d]

\* TimeComposer::Write: [ok, ms]; the numbers missing are 0, 24:00:00.000
\* is the end of the day
TimeWrite(st) ==
    LET comp == [i \in 1..4 |-> IF i <= Len(st.time) THEN st.time[i] ELSE 0]
        hour == IF st.ho = 0 - 1 THEN comp[1] ELSE (comp[1] % 12) + st.ho
        inRange == IsHour(hour) /\ IsMinute(comp[2]) /\ IsSecond(comp[3]) /\ IsMillisecond(comp[4])
        midnight == hour = 24 /\ comp[2] = 0 /\ comp[3] = 0 /\ comp[4] = 0
    IN [ok |-> (st.ho # 0 - 1 => comp[1] \in 0..12) /\ (inRange \/ midnight),
        ms |-> IF inRange \/ midnight
               THEN hour * 3600000 + comp[2] * 60000 + comp[3] * 1000 + comp[4] ELSE 0]

\* hour * 3600 + minute * 60 in unsigned 32-bit arithmetic, as [hi, lo] with
\* the value hi * 65536 + lo
OffsetSeconds(hour, minute) ==
    LET low == (hour % 65536) * 3600 + minute * 60
        high == ((hour \div 65536) * 3600) % 65536
    IN [hi |-> (high + low \div 65536) % 65536, lo |-> low % 65536]

\* the signed offset when it is no more than Smi::kMaxValue: [ok, local, sec]
CheckedOffset(sign, total) ==
    [ok |-> total.hi < 32768, local |-> FALSE,
     sec |-> IF total.hi < 32768 THEN sign * (total.hi * 65536 + total.lo) ELSE 0]

\* TimeZoneComposer::Write: [ok, local, sec]; the offset from UTC in seconds,
\* or local when the text names no zone
ZoneWrite(st) ==
    IF st.tzs = 0 THEN [ok |-> TRUE, local |-> TRUE, sec |-> 0]
    ELSE CheckedOffset(st.tzs, OffsetSeconds(IF st.tzh = 0 - 1 THEN 0 ELSE st.tzh,
                                             IF st.tzm = 0 - 1 THEN 0 ELSE st.tzm))

\* the time value of the written day, time and zone: MakeDay, MakeTime, then
\* the host's offset for that local time or the named offset taken off, TimeClip
MakeDate(d, t, z) ==
    IF ~d.ok \/ ~t.ok \/ ~z.ok THEN NaNTime
    ELSE IF d.y > 300000 \/ d.y < 0 - 300000 THEN NaNTime
    ELSE IF z.local
         THEN LET day == DaysFromCivil(d.y, d.m, 1) + d.d - 1
              IN TimeClip(MakeTime(day, t.ms - LocalTZA(day, t.ms) * 1000))
    ELSE TimeClip(MakeTime(DaysFromCivil(d.y, d.m, 1) + d.d - 1 - z.sec \div 86400,
                           t.ms - (z.sec % 86400) * 1000))

ComposeDate(st) == MakeDate(DayWrite(st), TimeWrite(st), ZoneWrite(st))

\* the outcome of the readers
ParseResult(all) == IF all.r = "invalid" THEN NaNTime ELSE ComposeDate(all.st)

\* the legacy reader takes over where the date-time string reader stopped
ParseRest(T, es5) ==
    IF es5.r = "legacy" THEN ParseResult(LegacyParse(T, es5.p, es5.st, Len(es5.st.day) > 0))
    ELSE ParseResult(es5)

ParseTokens(T) == ParseRest(T, ParseES5DateTime(T))

\* Date.parse(s)
DateParse(s) == ParseTokens(Scan(s, 1))

\* new Date(v) when it does not raise: a number is the time value, a boolean
\* its number, any other value is parsed as text
NewDate(v) ==
    CASE v.t = "undefined" -> NaNTime
      [] v.t = "null" -> TimeOf(0, 0)
      [] v.t \in {"num", "bool"} -> TimeClip(MakeTime(0, v.n))
      [] OTHER -> DateParse(ToStr(v))

getUTCFullYear(tv) == CivilFromDays(tv.day).y
getUTCMonth(tv) == CivilFromDays(tv.day).m - 1
getUTCDate(tv) == CivilFromDays(tv.day).d
getUTCHours(tv) == tv.ms \div 3600000
getUTCMinutes(tv) == (tv.ms \div 60000) % 60
getUTCSeconds(tv) == (tv.ms \div 1000) % 60

\* whether date.toISOString() raises a RangeError (Invalid time value)
ToISOStringThrows(tv) == tv.nan

\* date.toISOString() of a valid date: YYYY-MM-DDTHH:mm:ss.sssZ, the year in
\* four digits from 0 to 9999 and signed in six digits otherwise
toISOString(tv) ==
    LET y == getUTCFullYear(tv)
        year == IF y \in 0..9999 THEN PadStart(NatToStr(y), 4)
                ELSE IF y < 0 THEN <<"-">> \o PadStart(NatToStr(0 - y), 6)
                ELSE <<"+">> \o PadStart(NatToStr(y), 6)
    IN year \o <<"-">> \o PadStart(NatToStr(getUTCMonth(tv) + 1), 2)
            \o <<"-">> \o PadStart(NatToStr(getUTCDate(tv)), 2)
            \o <<"T">> \o PadStart(NatToStr(getUTCHours(tv)), 2)
            \o <<":">> \o PadStart(NatToStr(getUTCMinutes(tv)), 2)
            \o <<":">> \o PadStart(NatToStr(getUTCSeconds(tv)), 2)
            \o <<".">> \o PadStart(NatToStr(tv.ms % 1000), 3)
            \o <<"Z">>

---------------------------------------------------------------------------
(* cleanJsonForLLM *)

KEY_MAP == <<
    <<<<"e","v","e","n","t","_","t","i","t","l","e","_","t","e","x","t">>, <<"t","i","t","l","e">>>>,
    <<<<"e","v","e","n","t","_","d","e","t","a","i","l","s","_","t","e","x","t">>, <<"d","e","t","a","i","l","s">>>>,
    <<<<"e","v","e","n","t","_","s","t","a","t","u","s","_","t","e","x","t">>, <<"s","t","a","t","u","s">>>>,
    <<<<"e","v","e","n","t","_","l","o","c","a","t","i","o","n","_","t","e","x","t">>, <<"l","o","c","a","t","i","o","n">>>>,
    <<<<"a","c","a","d","e","m","i","c","_","y","e","a","r","_","o","p","t","i","o","n","_","a","c","a","d","e","m","i","c","_","y","e","a","r","s">>, <<"a","c","a","d","e","m","i","c","_","y","e","a","r">>>>,
    <<<<"y","e","a","r","_","o","p","t","i","o","n","_","y","e","a","r">>, <<"y","e","a","r">>>>,
    <<<<"m","o","d","u","l","e","_","o","p","t","i","o","n","_","m","o","d","u","l","e","s">>, <<"m","o","d","u","l","e">>>>,
    <<<<"s","p","e","c","i","a","l","i","t","y","_","o","p","t","i","o","n","_","s","p","e","c","i","a","l","i","t","y">>, <<"s","p","e","c","i","a","l","i","t","y">>>>,
    <<<<"c","p","p","_","m","o","d","u","l","e","_","o","p","t","i","o","n","_","s","p","e","c","i","a","l","i","t","y">>, <<"c","p","p","_","s","p","e","c","i","a","l","i","t","y">>>>,
    <<<<"s","t","u","d","e","n","t","_","c","o","u","n","t","_","n","u","m","b","e","r">>, <<"s","t","u","d","e","n","t","_","c","o","u","n","t">>>>,
    <<<<"e","v","e","n","t","_","d","u","r","a","t","i","o","n","_","h","r","s","_","n","u","m","b","e","r">>, <<"d","u","r","a","t","i","o","n","_","h","o","u","r","s">>>>,
    <<<<"o","n","l","i","n","e","_","b","o","o","l","e","a","n">>, <<"i","s","_","o","n","l","i","n","e">>>>,
    <<<<"c","p","p","_","b","o","o","l","e","a","n">>, <<"i","s","_","c","p","p">>>>,
    <<<<"e","v","e","n","t","_","c","a","n","c","e","l","e","d","_","b","o","o","l","e","a","n">>, <<"i","s","_","c","a","n","c","e","l","l","e","d">>>>,
    <<<<"s","i","t","e","_","o","p","t","i","o","n","_","s","i","t","e","s">>, <<"s","i","t","e">>>> >>

\* !doc || !doc._source
IsSkipped(doc) == ~Truthy(doc) \/ ~Truthy(Get(doc, <<"_","s","o","u","r","c","e">>))

\* source[originalKey] != null
IsCopiedIfTruthy(value) == Truthy(value)
IsCopied(value) == ~IsNullish(value)

\* the value stored under newKey: the underscores of a textual year are removed
MappedValue(newKey, value) ==
    IF newKey = <<"y","e","a","r">> /\ value.t = "str" THEN Str(ReplaceAll(value.s, "_", << >>)) ELSE value

\* step 1: the loop over the entries of KEY_MAP, from entry i on
RECURSIVE CopyMapped(_, _, _)
CopyMapped(source, i, cleanedEvent) ==
    IF i > Len(KEY_MAP) THEN cleanedEvent
    ELSE LET originalKey == KEY_MAP[i][1]
             newKey == KEY_MAP[i][2]
             value == Get(source, originalKey)
         IN CopyMapped(source, i + 1,
                IF IsCopied(value) THEN SetProp(cleanedEvent, newKey, MappedValue(newKey, value))
                ELSE cleanedEvent)

\* step 2 for one raw timestamp field: the exception raised, "" for none;
\* new Date raises a TypeError on a value without a primitive value,
\* toISOString a RangeError on an invalid date
TimestampError(source, rawKey) ==
    IF ~Truthy(Get(source, rawKey)) THEN ""
    ELSE IF ToStrThrows(Get(source, rawKey)) THEN "TypeError"
    ELSE IF ToISOStringThrows(NewDate(Get(source, rawKey))) THEN "RangeError"
    ELSE ""

\* step 2 for one raw timestamp field; when the conversion raises the
\* assignment is never made
ConvertTimestamp(source, rawKey, newKey, cleanedEvent) ==
    IF Truthy(Get(source, rawKey)) /\ TimestampError(source, rawKey) = ""
    THEN SetProp(cleanedEvent, newKey, Str(toISOString(NewDate(Get(source, rawKey)))))
    ELSE cleanedEvent

\* step 3 for one raw list field
CountList(source, rawKey, newKey, cleanedEvent) ==
    IF IsArray(Get(source, rawKey))
    THEN SetProp(cleanedEvent, newKey, Num(Len(Get(source, rawKey).p)))
    ELSE cleanedEvent

\* the exception the map callback raises on doc, "" for none: that of the
\* start timestamp, else that of the end timestamp
MapDocError(doc) ==
    IF IsSkipped(doc) THEN ""
    ELSE IF TimestampError(Get(doc, <<"_","s","o","u","r","c","e">>), <<"s","t","r","a","t","_","d","a","t","e","_","a","n","d","_","t","i","m","e","_","d","a","t","e">>) # ""
    THEN TimestampError(Get(doc, <<"_","s","o","u","r","c","e">>), <<"s","t","r","a","t","_","d","a","t","e","_","a","n","d","_","t","i","m","e","_","d","a","t","e">>)
    ELSE TimestampError(Get(doc, <<"_","s","o","u","r","c","e">>), <<"e","n","d","_","d","a","t","e","_","a","n","d","_","t","i","m","e","_","d","a","t","e">>)

\* the map callback: null for a skipped doc, the exception when it raises,
\* the cleaned event otherwise
MapDoc(doc) ==
    IF IsSkipped(doc) THEN Null
    ELSE IF MapDocError(doc) # "" THEN Thrown(MapDocError(doc))
    ELSE LET source == Get(doc, <<"_","s","o","u","r","c","e">>)
             e1 == CopyMapped(source, 1, << >>)
             e2 == ConvertTimestamp(source, <<"s","t","r","a","t","_","d","a","t","e","_","a","n","d","_","t","i","m","e","_","d","a","t","e">>, <<"s","t","a","r","t","_","t","i","m","e","_","u","t","c">>, e1)
             e3 == ConvertTimestamp(source, <<"e","n","d","_","d","a","t","e","_","a","n","d","_","t","i","m","e","_","d","a","t","e">>, <<"e","n","d","_","t","i","m","e","_","u","t","c">>, e2)
             e4 == CountList(source, <<"t","e","a","c","h","e","r","s","_","l","i","s","t","_","u","s","e","r">>, <<"t","e","a","c","h","e","r","_","c","o","u","n","t">>, e3)
             e5 == CountList(source, <<"a","t","t","e","n","d","e","d","_","y","e","s","_","l","i","s","t","_","c","u","s","t","o","m","_","s","t","u","d","e","n","t","_","i","n","f","o">>, <<"a","t","t","e","n","d","a","n","c","e","_","y","e","s","_","c","o","u","n","t">>, e4)
             e6 == CountList(source, <<"a","t","t","e","n","d","e","d","_","n","o","_","l","i","s","t","_","c","u","s","t","o","m","_","s","t","u","d","e","n","t","_","i","n","f","o">>, <<"a","t","t","e","n","d","a","n","c","e","_","n","o","_","c","o","u","n","t">>, e5)
         IN Obj(e6)

\* step 4: event && event.status !== "Archived" && event.title
IsRetained(event) ==
    /\ Truthy(event)
    /\ Get(event, <<"s","t","a","t","u","s">>) # Str(<<"A","r","c","h","i","v","e","d">>)
    /\ Truthy(Get(event, <<"t","i","t","l","e">>))

\* !rawData || !Array.isArray(rawData.docs)
IsInvalidInput(data) == ~Truthy(data) \/ ~IsArray(Get(data, <<"d","o","c","s">>))

\* the call: [status, exception, events, errors]; exception is the one the
\* map callback raises on the first document it raises on, events the array
\* of the returned { events }, errors the number of console.error diagnostics
cleanJsonForLLM(data) ==
    IF IsInvalidInput(data)
    THEN [status |-> "returned", exception |-> "", events |-> << >>, errors |-> 1]
    ELSE LET docs == Get(data, <<"d","o","c","s">>).p
             raising == {i \in 1..Len(docs) : MapDocError(docs[i]) # ""}
         IN IF raising # {}
            THEN [status |-> "threw",
                  exception |-> MapDocError(docs[CHOOSE i \in raising : \A j \in raising : i <= j]),
                  events |-> << >>, errors |-> 0]
            ELSE [status |-> "returned", exception |-> "",
                  events |-> SelectSeq([i \in 1..Len(docs) |-> MapDoc(docs[i])], IsRetained),
                  errors |-> 0]

---------------------------------------------------------------------------
(* downloadJsonAsCsv *)

\* the default of the filename parameter
DefaultFilename == <<"d","a","t","a",".","c","s","v">>

\* the year below which a date is taken as placeholder data
MinExcelYear == 1980

pad(num) == PadStart(NatToStr(num), 2)

\* YYYY-MM-DD HH:MM:SS from the UTC fields of a date
ExcelFormat(date) ==
    Str(NatToStr(getUTCFullYear(date)) \o <<"-">> \o pad(getUTCMonth(date) + 1)
        \o <<"-">> \o pad(getUTCDate(date)) \o <<" ">> \o pad(getUTCHours(date))
        \o <<":">> \o pad(getUTCMinutes(date)) \o <<":">> \o pad(getUTCSeconds(date)))

FormatFrom1970(dateString, date) ==
    IF date.nan \/ getUTCFullYear(date) < 1970 THEN dateString ELSE ExcelFormat(date)

formatDateForExcelFrom1970(dateString) ==
    IF ~Truthy(dateString) \/ dateString.t # "str" THEN Str(<< >>)
    ELSE FormatFrom1970(dateString, NewDate(dateString))

\* the text itself for an invalid or pre-1980 date, the formatted date otherwise
FormatParsed(dateString, date) ==
    IF date.nan \/ getUTCFullYear(date) < MinExcelYear THEN dateString ELSE ExcelFormat(date)

\* formatDateForExcel: '' for a value that is falsy or no string, the value
\* itself for an invalid or pre-1980 date, YYYY-MM-DD HH:MM:SS otherwise
formatDateForExcel(dateString) ==
    IF ~Truthy(dateString) \/ dateString.t # "str" THEN Str(<< >>)
    ELSE FormatParsed(dateString, NewDate(dateString))

\* whether escapeCsvCell raises a TypeError: String(cell ?? '') does
escapeCsvCellThrows(cell) == ~IsNullish(cell) /\ ToStrThrows(cell)

\* escapeCsvCell when it does not raise: String(cell ?? ''), quoted with its
\* quotes doubled when it holds a double-quote, a comma or a newline
escapeCsvCell(cell) ==
    LET strCell == IF IsNullish(cell) THEN << >> ELSE ToStr(cell)
    IN IF Contains(strCell, "\"") \/ Contains(strCell, ",") \/ Contains(strCell, "\n")
       THEN <<"\"">> \o ReplaceAll(strCell, "\"", <<"\"","\"">>) \o <<"\"">>
       ELSE strCell

\* acc.add(key) for each key, the accumulator a Set kept in insertion order
RECURSIVE AddAll(_, _)
AddAll(acc, keys) ==
    IF Len(keys) = 0 THEN acc
    ELSE AddAll(IF \E i \in 1..Len(acc) : acc[i] = Head(keys) THEN acc ELSE Append(acc, Head(keys)),
                Tail(keys))

\* obj && typeof obj === 'object'
IsObjectLike(obj) == obj.t \in {"obj", "arr"}

\* the reduce over the records, from record i on
RECURSIVE HeadersFrom(_, _, _)
HeadersFrom(records, i, acc) ==
    IF i > Len(records) THEN acc
    ELSE HeadersFrom(records, i + 1,
            IF IsObjectLike(records[i]) THEN AddAll(acc, ObjectKeys(records[i])) ELSE acc)

\* step 1: the unique keys of all records, in first-seen order
Headers(records) == HeadersFrom(records, 1, << >>)

IsDateHeader(header) == header = <<"s","t","a","r","t","_","t","i","m","e","_","u","t","c">> \/ header = <<"e","n","d","_","t","i","m","e","_","u","t","c">>

\* whether the cell raises a TypeError: String() of a value read from a
\* column that is not date-formatted
CellThrows(row, header) ==
    IF IsDateHeader(header) THEN escapeCsvCellThrows(formatDateForExcel(Get(row, header)))
    ELSE escapeCsvCellThrows(Get(row, header))

\* one cell: row[header], date-formatted in the two date columns, escaped
Cell(row, header) ==
    IF IsDateHeader(header) THEN escapeCsvCell(formatDateForExcel(Get(row, header)))
    ELSE escapeCsvCell(Get(row, header))

\* whether building the row raises a TypeError: row[header] of null or
\* undefined, or a cell that raises
DataRowThrows(row, headers) ==
    /\ Len(headers) > 0
    /\ GetThrows(row) \/ \E j \in 1..Len(headers) : CellThrows(row, headers[j])

\* step 3 for one record
DataRow(row, headers) == Join([j \in 1..Len(headers) |-> Cell(row, headers[j])], <<",">>)

\* !jsonData || !Array.isArray(jsonData) || jsonData.length === 0
IsInvalidOrEmpty(data) == ~Truthy(data) \/ ~IsArray(data) \/ Len(data.p) = 0

NoCsv == [status |-> "idle", exception |-> "", headers |-> << >>, headerRow |-> << >>,
          dataRows |-> << >>, csvString |-> << >>, saves |-> << >>, errors |-> 0]

\* the call: its status, the exception it raises, its locals, the files saved
\* and the diagnostics; a row that raises ends the call before anything is
\* joined or saved; the saved name is the text of the download attribute,
\* setAttribute's String(filename), which raises for a name without text
downloadJsonAsCsv(data, fileParam, download) ==
    IF IsInvalidOrEmpty(data) THEN [NoCsv EXCEPT !.status = "returned", !.errors = 1]
    ELSE LET headers == Headers(data.p)
             headerRow == Join(headers, <<",">>)
             dataRows == [i \in 1..Len(data.p) |-> DataRow(data.p[i], headers)]
             csvString == <<BOM>> \o Join(<<headerRow>> \o dataRows, <<"\n">>)
             filename == IF fileParam = Undef THEN Str(DefaultFilename) ELSE fileParam
         IN IF \E i \in 1..Len(data.p) : DataRowThrows(data.p[i], headers)
            THEN [NoCsv EXCEPT !.status = "threw", !.exception = "TypeError",
                               !.headers = headers, !.headerRow = headerRow]
            ELSE IF download /\ ToStrThrows(filename)
            THEN [NoCsv EXCEPT !.status = "threw", !.exception = "TypeError",
                               !.headers = headers, !.headerRow = headerRow,
                               !.dataRows = dataRows, !.csvString = csvString]
            ELSE [status |-> "returned", exception |-> "", headers |-> headers, headerRow |-> headerRow,
                  dataRows |-> dataRows, csvString |-> csvString,
                  saves |-> IF download
                            THEN <<[filename |-> ToStr(filename), content |-> csvString]>>
                            ELSE << >>,
                  errors |-> 0]
---------------------------------------------------------------------------
(* Inputs *)

\* the longest docs array
MaxDocs == 2

\* the longest array of records given to the exporter
MaxRecords == 2

\* the longest text of the exhaustive single-cell inputs
MaxLen == 3

Src(pairs) == Obj(<< <<<<"_","s","o","u","r","c","e">>, Obj(pairs)>> >>)

Batch(docs) == Obj(<< <<<<"d","o","c","s">>, Arr(docs)>> >>)

ValidStamp == Str(<<"2","0","2","4","-","0","1","-","1","5","T","1","0",":","0","0",":","0","0",".","0","0","0","Z">>)

BadStamp == Str(<<"b","a","d","-","d","a","t","e">>)

TitleT == <<<<"e","v","e","n","t","_","t","i","t","l","e","_","t","e","x","t">>, Str(<<"T">>)>>

ExtraFields == {
    <<<<"e","v","e","n","t","_","d","e","t","a","i","l","s","_","t","e","x","t">>, Null>>,
    <<<<"e","v","e","n","t","_","d","e","t","a","i","l","s","_","t","e","x","t">>, Str(<<"d",",","x">>)>>,
    <<<<"e","v","e","n","t","_","l","o","c","a","t","i","o","n","_","t","e","x","t">>, Str(<<"a","_","b">>)>>,
    <<<<"a","c","a","d","e","m","i","c","_","y","e","a","r","_","o","p","t","i","o","n","_","a","c","a","d","e","m","i","c","_","y","e","a","r","s">>, Str(<<"2","0","2","3","_","2","0","2","4">>)>>,
    <<<<"y","e","a","r","_","o","p","t","i","o","n","_","y","e","a","r">>, Str(<<"2","0","2","3","_","2","0","2","4">>)>>,
    <<<<"y","e","a","r","_","o","p","t","i","o","n","_","y","e","a","r">>, Num(3)>>,
    <<<<"m","o","d","u","l","e","_","o","p","t","i","o","n","_","m","o","d","u","l","e","s">>, Arr(<<Str(<<"m">>)>>)>>,
    <<<<"s","p","e","c","i","a","l","i","t","y","_","o","p","t","i","o","n","_","s","p","e","c","i","a","l","i","t","y">>, Str(<<"s">>)>>,
    <<<<"c","p","p","_","m","o","d","u","l","e","_","o","p","t","i","o","n","_","s","p","e","c","i","a","l","i","t","y">>, Undef>>,
    <<<<"s","t","u","d","e","n","t","_","c","o","u","n","t","_","n","u","m","b","e","r">>, Num(0)>>,
    <<<<"e","v","e","n","t","_","d","u","r","a","t","i","o","n","_","h","r","s","_","n","u","m","b","e","r">>, Num(2)>>,
    <<<<"o","n","l","i","n","e","_","b","o","o","l","e","a","n">>, Bool(FALSE)>>,
    <<<<"c","p","p","_","b","o","o","l","e","a","n">>, Bool(TRUE)>>,
    <<<<"e","v","e","n","t","_","c","a","n","c","e","l","e","d","_","b","o","o","l","e","a","n">>, Bool(FALSE)>>,
    <<<<"s","i","t","e","_","o","p","t","i","o","n","_","s","i","t","e","s">>, Str(<< >>)>>,
    <<<<"s","t","r","a","t","_","d","a","t","e","_","a","n","d","_","t","i","m","e","_","d","a","t","e">>, ValidStamp>>,
    <<<<"s","t","r","a","t","_","d","a","t","e","_","a","n","d","_","t","i","m","e","_","d","a","t","e">>, BadStamp>>,
    <<<<"s","t","r","a","t","_","d","a","t","e","_","a","n","d","_","t","i","m","e","_","d","a","t","e">>, Num(86400000)>>,
    <<<<"s","t","r","a","t","_","d","a","t","e","_","a","n","d","_","t","i","m","e","_","d","a","t","e">>, Num(0)>>,
    <<<<"s","t","r","a","t","_","d","a","t","e","_","a","n","d","_","t","i","m","e","_","d","a","t","e">>, Str(<<"2","0","2","4">>)>>,
    <<<<"e","n","d","_","d","a","t","e","_","a","n","d","_","t","i","m","e","_","d","a","t","e">>, Str(<<"J","a","n"," ","1","5"," ","2","0","2","4"," ","1","0",":","3","0"," ","p","m">>)>>,
    <<<<"e","n","d","_","d","a","t","e","_","a","n","d","_","t","i","m","e","_","d","a","t","e">>, Str(<<"2","0","2","4","-","0","2","-","2","9","T","2","3",":","5","9",":","5","9","Z">>)>>,
    <<<<"e","n","d","_","d","a","t","e","_","a","n","d","_","t","i","m","e","_","d","a","t","e">>, BadStamp>>,
    <<<<"s","t","r","a","t","_","d","a","t","e","_","a","n","d","_","t","i","m","e","_","d","a","t","e">>, Str(<<"2","0","2","4","-","0","1","-","1","5","T","1","0",":","0","0",":","0","0",".","0","0","0","Z">> \o <<"2028">>)>>,
    <<<<"s","t","r","a","t","_","d","a","t","e","_","a","n","d","_","t","i","m","e","_","d","a","t","e">>, Str(<<"J","u","l"," ","4"," ","2","0","2","4"," ","2","0",":","3","0">>)>>,
    <<<<"s","t","r","a","t","_","d","a","t","e","_","a","n","d","_","t","i","m","e","_","d","a","t","e">>, Str(<<"J","a","n"," ","1"," ","1","8","0","0">>)>>,
    <<<<"s","t","r","a","t","_","d","a","t","e","_","a","n","d","_","t","i","m","e","_","d","a","t","e">>, Arr(<<Str(<<"2","0","2","4","-","0","1","-","1","5">>)>>)>>,
    <<<<"s","t","r","a","t","_","d","a","t","e","_","a","n","d","_","t","i","m","e","_","d","a","t","e">>, Obj(<< >>)>>,
    <<<<"e","n","d","_","d","a","t","e","_","a","n","d","_","t","i","m","e","_","d","a","t","e">>, Obj(<< <<<<"t","o","S","t","r","i","n","g">>, Num(1)>> >>)>>,
    <<<<"e","n","d","_","d","a","t","e","_","a","n","d","_","t","i","m","e","_","d","a","t","e">>, Arr(<<Obj(<< <<<<"t","o","S","t","r","i","n","g">>, Null>> >>)>>)>>,
    <<<<"t","e","a","c","h","e","r","s","_","l","i","s","t","_","u","s","e","r">>, Arr(<<Str(<<"u">>), Str(<<"v">>)>>)>>,
    <<<<"t","e","a","c","h","e","r","s","_","l","i","s","t","_","u","s","e","r">>, Str(<<"x">>)>>,
    <<<<"a","t","t","e","n","d","e","d","_","y","e","s","_","l","i","s","t","_","c","u","s","t","o","m","_","s","t","u","d","e","n","t","_","i","n","f","o">>, Arr(<< >>)>>,
    <<<<"a","t","t","e","n","d","e","d","_","n","o","_","l","i","s","t","_","c","u","s","t","o","m","_","s","t","u","d","e","n","t","_","i","n","f","o">>, Arr(<<Str(<<"u">>)>>)>>,
    <<<<"u","n","m","a","p","p","e","d","_","t","e","x","t">>, Str(<<"z">>)>> }

RichDoc == Src(<< <<<<"s","t","r","a","t","_","d","a","t","e","_","a","n","d","_","t","i","m","e","_","d","a","t","e">>, ValidStamp>>,
                  <<<<"y","e","a","r","_","o","p","t","i","o","n","_","y","e","a","r">>, Str(<<"_","2","0","2","3","_">>)>>,
                  <<<<"e","v","e","n","t","_","s","t","a","t","u","s","_","t","e","x","t">>, Str(<<"O","p","e","n">>)>>,
                  TitleT,
                  <<<<"e","n","d","_","d","a","t","e","_","a","n","d","_","t","i","m","e","_","d","a","t","e">>, Str(<<"2","0","2","4","-","0","1","-","1","5">>)>>,
                  <<<<"t","e","a","c","h","e","r","s","_","l","i","s","t","_","u","s","e","r">>, Arr(<<Str(<<"u">>)>>)>> >>)

DocPool ==
    {Null, Undef, Obj(<< >>), Obj(<< <<<<"_","s","o","u","r","c","e">>, Null>> >>)}
    \cup {Src(t \o s) : t \in {<< >>, << <<<<"e","v","e","n","t","_","t","i","t","l","e","_","t","e","x","t">>, Str(<< >>)>> >>, <<TitleT>>},
                         s \in {<< >>, << <<<<"e","v","e","n","t","_","s","t","a","t","u","s","_","t","e","x","t">>, Str(<<"A","r","c","h","i","v","e","d">>)>> >>,
                                << <<<<"e","v","e","n","t","_","s","t","a","t","u","s","_","t","e","x","t">>, Str(<<"O","p","e","n">>)>> >>}}
    \cup {Src(<<e, TitleT>>) : e \in ExtraFields}
    \cup {RichDoc,
          Src(<<TitleT, <<<<"e","v","e","n","t","_","s","t","a","t","u","s","_","t","e","x","t">>, Str(<<"A","r","c","h","i","v","e","d">>)>>,
                <<<<"s","t","r","a","t","_","d","a","t","e","_","a","n","d","_","t","i","m","e","_","d","a","t","e">>, BadStamp>> >>)}

SeqsUpTo(S, n) == UNION {[1..k -> S] : k \in 0..n}

RawInputs ==
    {Null, Undef, Num(5), Obj(<< >>), Obj(<< <<<<"d","o","c","s">>, Str(<<"x">>)>> >>)}
    \cup {Batch(docs) : docs \in SeqsUpTo(DocPool, MaxDocs)}

RecordPool == {
    Null, Undef, Num(5), Str(<<"x","y">>), Arr(<<Str(<<"u">>), Str(<<"v">>)>>),
    Obj(<< >>),
    Obj(<< <<<<"a">>, Num(1)>>, <<<<"b">>, Num(2)>> >>),
    Obj(<< <<<<"b">>, Num(3)>>, <<<<"c">>, Num(4)>> >>),
    Obj(<< <<<<"c">>, Str(<<"x">>)>>, <<<<"a">>, Null>> >>),
    Obj(<< <<<<"a">>, Undef>> >>),
    Obj(<< <<<<"a">>, Str(<<"H","e"," ","s","a","i","d",","," ","\"","h","i","\"">>)>> >>),
    Obj(<< <<<<"b">>, Str(<<"l","\n","l">>)>> >>),
    Obj(<< <<<<"k",",","k">>, Num(1)>> >>),
    Obj(<< <<<<"n","\n","n">>, Str(<<"x">>)>>, <<<<"a">>, Num(-7)>> >>),
    Obj(<< <<<<"a">>, Bool(TRUE)>> >>),
    Obj(<< <<<<"a">>, Arr(<<Str(<<"u">>), Str(<<"v">>)>>)>> >>),
    Obj(<< <<<<"b">>, Obj(<< >>)>> >>),
    Obj(<< <<<<"s","t","a","r","t","_","t","i","m","e","_","u","t","c">>, ValidStamp>>, <<<<"a">>, Str(<<"x">>)>> >>),
    Obj(<< <<<<"e","n","d","_","t","i","m","e","_","u","t","c">>, BadStamp>> >>),
    Obj(<< <<<<"s","t","a","r","t","_","t","i","m","e","_","u","t","c">>, Num(86400000)>> >>),
    Obj(<< <<<<"s","t","a","r","t","_","t","i","m","e","_","u","t","c">>, Str(<<"1","9","7","0","-","0","1","-","0","1","T","0","0",":","0","0",":","0","0",".","0","0","0","Z">>)>>, <<<<"e","n","d","_","t","i","m","e","_","u","t","c">>, ValidStamp>> >>),
    Obj(<< <<<<"b">>, Str(<< >>)>>, <<<<"s","t","a","r","t","_","t","i","m","e","_","u","t","c">>, Str(<<"b","a","d",",","d","a","t","e">>)>> >>),
    Obj(<< <<<<"e","n","d","_","t","i","m","e","_","u","t","c">>, Bool(TRUE)>>, <<<<"t","i","t","l","e">>, ValidStamp>> >>),
    Obj(<< <<<<"t","o","S","t","r","i","n","g">>, Num(1)>> >>),
    Obj(<< <<<<"a">>, Obj(<< <<<<"t","o","S","t","r","i","n","g">>, Num(1)>> >>)>> >>),
    Obj(<< <<<<"b">>, Arr(<<Str(<<"u">>), Obj(<< <<<<"t","o","S","t","r","i","n","g">>, Null>>, <<<<"v","a","l","u","e","O","f">>, Num(2)>> >>)>>)>> >>),
    Obj(<< <<<<"b">>, Num(1)>>, <<<<"1","0">>, Num(2)>>, <<<<"a">>, Num(3)>>, <<<<"9">>, Num(4)>>,
           <<<<"0","1">>, Num(5)>>, <<<<"4","2","9","4","9","6","7","2","9","5">>, Num(6)>>, <<<<"4","2","9","4","9","6","7","2","9","4">>, Num(7)>> >>),
    Obj(<< <<<<"s","t","a","r","t","_","t","i","m","e","_","u","t","c">>, Obj(<< <<<<"t","o","S","t","r","i","n","g">>, Num(1)>> >>)>> >>) }

\* the calendar dates and the times of day of the date inputs: [y, m, d] and [h, mi, s, ms]
CalendarDates == {<<1970, 1, 1>>, <<1979, 12, 31>>, <<1980, 1, 1>>, <<1980, 2, 29>>, <<1999, 3, 1>>,
                  <<2000, 2, 29>>, <<2024, 1, 15>>, <<2024, 2, 29>>, <<2024, 12, 31>>, <<9999, 12, 31>>}

DayTimes == {<<0, 0, 0, 0>>, <<10, 0, 0, 0>>, <<9, 5, 7, 42>>, <<23, 59, 59, 999>>}

\* YYYY-MM-DD of a calendar date
DateText(c) == PadStart(NatToStr(c[1]), 4) \o <<"-">> \o PadStart(NatToStr(c[2]), 2) \o <<"-">> \o PadStart(NatToStr(c[3]), 2)

\* HH:mm:ss of a time of day
TimeText(t) == PadStart(NatToStr(t[1]), 2) \o <<":">> \o PadStart(NatToStr(t[2]), 2) \o <<":">> \o PadStart(NatToStr(t[3]), 2)

\* the three forms of a date-time text: with milliseconds, without, date only
StampTexts(c, t) == {DateText(c) \o <<"T">> \o TimeText(t) \o <<".">> \o PadStart(NatToStr(t[4]), 3) \o <<"Z">>,
                     DateText(c) \o <<"T">> \o TimeText(t) \o <<"Z">>,
                     DateText(c)}

\* date texts of other forms
OtherDateTexts == {
    <<"2","0","2","4">>, <<"1","9","7","5">>, <<"2","0","2","4","-","0","1">>, <<"2","0","2","4","-","0","1","-","1","5","T","1","0",":","0","0","Z">>, <<"2","0","2","4","-","0","1","-","1","5","T","1","0",":","0","0",":","0","0">>,
    <<"2","0","2","4","-","0","1","-","1","5","T","1","0",":","0","0",":","0","0",".","5","Z">>, <<"2","0","2","4","-","0","1","-","1","5","T","1","0",":","0","0",":","0","0","+","0","1",":","0","0">>, <<"2","0","2","4","-","0","1","-","1","5"," ","1","0",":","0","0",":","0","0","Z">>,
    <<"+","0","0","2","0","2","4","-","0","1","-","1","5","T","1","0",":","0","0",":","0","0",".","0","0","0","Z">>, <<"2","0","2","4","/","0","1","/","1","5">>, <<"J","a","n"," ","1","5"," ","2","0","2","4">>, <<"5">>, <<"x"," ","2","0","2","4">>,
    <<"J","a","n">> \o <<VT>> \o <<"1","5">> \o <<VT, VT>> \o <<"2","0","2","4">>, <<"-","0","0","0","0","0","0","-","0","1","-","0","1">>, <<"-","0","0","0","0","0","0">>,
    <<"1","/","2","/","2","0","2","4">> \o <<"2028">>, <<"1","/","2","/","2","0","2","4">> \o <<"2029">>, <<"2028">> \o <<"1","/","2","/","2","0","2","4">>, <<"2028">> \o <<" ","1","/","2","/","2","0","2","4">>,
    <<"1","/","2","/","2","0","2","4">> \o <<"00A0">>,
    <<"J","u","l"," ","4"," ","2","0","2","4"," ","2","0",":","3","0">>, <<"M","a","r"," ","1","0"," ","2","0","2","4"," ","0","2",":","3","0">>, <<"M","a","r"," ","1","0"," ","2","0","2","4"," ","0","3",":","0","0">>, <<"N","o","v"," ","3"," ","2","0","2","4"," ","0","1",":","3","0">>,
    <<"N","o","v"," ","3"," ","2","0","2","4"," ","0","2",":","0","0">>, <<"D","e","c"," ","3","1"," ","1","9","7","9"," ","2","0",":","0","0">>, <<"2","0","0","6","-","0","4","-","0","2","T","1","2",":","0","0",":","0","0">>, <<"2","0","0","6","-","0","3","-","1","2","T","1","2",":","0","0",":","0","0">>,
    <<"1","9","8","6","-","0","4","-","2","7","T","1","2",":","0","0">>, <<"J","a","n"," ","1"," ","1","8","0","0">>, <<"7","/","4","/","9","9","9","9">> }

DateCellValues ==
    {Str(s) : s \in UNION {StampTexts(c, t) : c \in CalendarDates, t \in DayTimes}}
    \cup {Str(s) : s \in OtherDateTexts}
    \cup {BadStamp, Str(<<"b","a","d",",","d","a","t","e">>), Str(<< >>), Null, Undef, Num(0), Num(86400000), Bool(TRUE), Bool(FALSE),
          Arr(<<Str(<<"u">>)>>), Arr(<<Str(<<"2","0","2","4","-","0","1","-","1","5">>)>>), Obj(<< >>)}

CsvInputs ==
    {Null, Undef, Num(5), Str(<<"x","y">>), Bool(TRUE), Obj(<< <<<<"a">>, Num(1)>> >>), Arr(<< >>)}
    \cup {Arr(records) : records \in SeqsUpTo(RecordPool, MaxRecords)}
    \cup {Arr(<<Obj(<< <<<<"a">>, Str(s)>> >>)>>) : s \in SeqsUpTo({"a", ",", "\"", "\n"}, MaxLen)}
    \cup {Arr(<<Obj(<< <<h, v>> >>)>>) : h \in {<<"s","t","a","r","t","_","t","i","m","e","_","u","t","c">>, <<"e","n","d","_","t","i","m","e","_","u","t","c">>, <<"t","i","m","e","_","u","t","c">>}, v \in DateCellValues}

\* the time zones of the host
HostTimeZones == {"UTC", "America/New_York"}

FileArgs == {Undef, Str(<<"e","v","e","n","t","s",".","c","s","v">>)}

---------------------------------------------------------------------------
(* The calls *)

NoClean == [status |-> "idle", exception |-> "", events |-> << >>, errors |-> 0]

\* the call cleanJsonForLLM(rawData)
CleanJsonForLLM ==
    /\ pc = "clean"
    /\ cleanCall' = cleanJsonForLLM(rawData)
    /\ consoleErrors' = consoleErrors + cleanCall'.errors
    /\ pc' = IF cleanCall'.status = "returned" THEN "done" ELSE "aborted"
    /\ UNCHANGED <<rawData, jsonData, fileArg, hostTimeZone, hasDownload, csvCall, saved>>

\* the call downloadJsonAsCsv(jsonData, fileArg)
DownloadJsonAsCsv ==
    /\ pc = "export"
    /\ csvCall' = downloadJsonAsCsv(jsonData, fileArg, hasDownload)
    /\ consoleErrors' = consoleErrors + csvCall'.errors
    /\ saved' = saved \o csvCall'.saves
    /\ pc' = IF csvCall'.status = "returned" THEN "done" ELSE "aborted"
    /\ UNCHANGED <<rawData, cleanCall, jsonData, fileArg, hostTimeZone, hasDownload>>

\* the normalizer alone, on any raw batch
Init ==
    /\ rawData \in RawInputs
    /\ cleanCall = NoClean
    /\ jsonData = Undef
    /\ fileArg = Undef
    /\ hostTimeZone \in HostTimeZones
    /\ hasDownload = TRUE
    /\ csvCall = NoCsv
    /\ saved = << >>
    /\ consoleErrors = 0
    /\ pc = "clean"

Next == CleanJsonForLLM

Spec == Init /\ [][Next]_vars

\* the exporter alone, on any array of records, file name and browser
InitCsv ==
    /\ rawData = Undef
    /\ cleanCall = NoClean
    /\ jsonData \in CsvInputs
    /\ fileArg \in FileArgs
    /\ hostTimeZone \in HostTimeZones
    /\ hasDownload \in BOOLEAN
    /\ csvCall = NoCsv
    /\ saved = << >>
    /\ consoleErrors = 0
    /\ pc = "export"

NextCsv == DownloadJsonAsCsv

SpecCsv == InitCsv /\ [][NextCsv]_vars

---------------------------------------------------------------------------
(* Reading the inputs and outputs back, for the properties below *)

\* the docs of a batch whose docs is an array
IsBatch(data) == data.t = "obj" /\ HasOwn(data.p, <<"d","o","c","s">>) /\ OwnValue(data.p, <<"d","o","c","s">>).t = "arr"

DocsOf(data) == OwnValue(data.p, <<"d","o","c","s">>).p

\* the document is an object with a _source object
HasSource(doc) == doc.t = "obj" /\ HasOwn(doc.p, <<"_","s","o","u","r","c","e">>) /\ OwnValue(doc.p, <<"_","s","o","u","r","c","e">>).t = "obj"

\* the raw field of a document with a _source, undefined when absent
Field(doc, rawKey) ==
    LET source == OwnValue(doc.p, <<"_","s","o","u","r","c","e">>).p
    IN IF HasOwn(source, rawKey) THEN OwnValue(source, rawKey) ELSE Undef

HasBadStamp(doc) ==
    /\ HasSource(doc)
    /\ \/ Field(doc, <<"s","t","r","a","t","_","d","a","t","e","_","a","n","d","_","t","i","m","e","_","d","a","t","e">>) = BadStamp
       \/ Field(doc, <<"e","n","d","_","d","a","t","e","_","a","n","d","_","t","i","m","e","_","d","a","t","e">>) = BadStamp

\* the document passes the retention predicate: not archived, a non-empty title
Eligible(doc) ==
    /\ HasSource(doc)
    /\ Field(doc, <<"e","v","e","n","t","_","s","t","a","t","u","s","_","t","e","x","t">>) # Str(<<"A","r","c","h","i","v","e","d">>)
    /\ Field(doc, <<"e","v","e","n","t","_","t","i","t","l","e","_","t","e","x","t">>).t = "str"
    /\ Len(Field(doc, <<"e","v","e","n","t","_","t","i","t","l","e","_","t","e","x","t">>).s) > 0

NoUnderscores(s) == SelectSeq(s, LAMBDA c : c # "_")

\* the value of a key of a record, undefined when the record lacks it
ValueAt(record, key) == IF HasOwn(record.p, key) THEN OwnValue(record.p, key) ELSE Undef

\* the text of a value as a cell shows it
TextOf(v) == IF IsNullish(v) THEN << >> ELSE ToStr(v)

IsSpecial(c) == c \in {",", "\"", "\n"}

\* the k-th smallest member of a set of positions
Pick(S, k) == CHOOSE i \in S : Cardinality({x \in S : x <= i}) = k

QuotesBefore(text, i) == Cardinality({k \in 1..(i - 1) : text[k] = "\""})

\* the positions of the separator c that lie outside quotes
Breaks(text, c) == {i \in 1..Len(text) : text[i] = c /\ QuotesBefore(text, i) % 2 = 0}

\* the pieces of the text between the separators c outside quotes
Pieces(text, c) ==
    LET B == Breaks(text, c)
        n == Cardinality(B) + 1
    IN [r \in 1..n |-> SubSeq(text,
                              IF r = 1 THEN 1 ELSE Pick(B, r - 1) + 1,
                              IF r = n THEN Len(text) ELSE Pick(B, r) - 1)]

\* a field without its outer quotes, the second quote of every pair dropped
Unquote(field) ==
    IF Len(field) >= 2 /\ field[1] = "\"" /\ field[Len(field)] = "\""
    THEN LET inner == SubSeq(field, 2, Len(field) - 1)
             K == {k \in 1..Len(inner) : inner[k] # "\"" \/ QuotesBefore(inner, k + 1) % 2 = 1}
         IN [j \in 1..Cardinality(K) |-> inner[Pick(K, j)]]
    ELSE field

\* a CSV reader that knows quotes: the records of the text (split at the
\* newlines outside quotes), each the sequence of its fields (split at the
\* commas outside quotes) with the quoting undone
ReadCsv(text) ==
    LET lines == Pieces(text, "\n")
    IN [r \in 1..Len(lines) |->
            LET cells == Pieces(lines[r], ",")
            IN [f \in 1..Len(cells) |-> Unquote(cells[f])]]

\* the exporter was called with a non-empty array
IsNonEmptyArray(data) == data.t = "arr" /\ Len(data.p) > 0

\* ... all of whose elements are key/value mappings
IsMappingArray(data) == IsNonEmptyArray(data) /\ \A i \in 1..Len(data.p) : data.p[i].t = "obj"

CleanCalled == pc # "clean"

CsvCalled == csvCall.status # "idle"

---------------------------------------------------------------------------
(* Properties of cleanJsonForLLM, under Spec *)

\* C1: for a batch whose docs is an array holding a document that is null,
\* undefined or without _source, cleanJsonForLLM does not raise; that document
\* contributes no record, every other document is processed, and the events
\* are the records of the retained documents in document order.
C1_SkippedDocsContributeNothing ==
    (CleanCalled /\ IsBatch(rawData) /\ \E i \in 1..Len(DocsOf(rawData)) : ~HasSource(DocsOf(rawData)[i])) =>
        LET kept == SelectSeq(DocsOf(rawData), Eligible)
        IN /\ cleanCall.status = "returned"
           /\ cleanCall.events = [k \in 1..Len(kept) |-> MapDoc(kept[k])]

\* C2: when a raw timestamp is present but unparseable cleanJsonForLLM does
\* not raise: it returns { events } with every retainable document's record.
C2_UnparseableTimestampDoesNotAbort ==
    (CleanCalled /\ IsBatch(rawData) /\ \E i \in 1..Len(DocsOf(rawData)) : HasBadStamp(DocsOf(rawData)[i])) =>
        /\ cleanCall.status = "returned"
        /\ Len(cleanCall.events) = Len(SelectSeq(DocsOf(rawData), Eligible))

\* C3: every returned event is non-null, not archived and titled, and every
\* document with a _source, a status other than "Archived" and a non-empty
\* textual title has exactly one record in events.
C3_RetentionPredicate ==
    (CleanCalled /\ IsBatch(rawData)) =>
        /\ \A k \in 1..Len(cleanCall.events) :
              LET event == cleanCall.events[k]
              IN /\ event.t = "obj"
                 /\ ValueAt(event, <<"s","t","a","t","u","s">>) # Str(<<"A","r","c","h","i","v","e","d">>)
                 /\ Truthy(ValueAt(event, <<"t","i","t","l","e">>))
        /\ Len(cleanCall.events) = Len(SelectSeq(DocsOf(rawData), Eligible))

\* C4: in every returned event, for each of the 15 KEY_MAP pairs, the
\* canonical key is present exactly when the source value is neither null nor
\* undefined, and holds that value unchanged, a textual year without its
\* underscores.
C4_MappedFieldsCopied ==
    (CleanCalled /\ IsBatch(rawData) /\ cleanCall.status = "returned") =>
        LET kept == SelectSeq(DocsOf(rawData), Eligible)
        IN /\ Len(cleanCall.events) = Len(kept)
           /\ Len(KEY_MAP) = 15
           /\ \A k \in 1..Len(kept) : \A m \in 1..Len(KEY_MAP) :
                LET value == Field(kept[k], KEY_MAP[m][1])
                    event == cleanCall.events[k]
                    newKey == KEY_MAP[m][2]
                IN /\ HasOwn(event.p, newKey) <=> ~IsNullish(value)
                   /\ HasOwn(event.p, newKey) =>
                        OwnValue(event.p, newKey) =
                            IF newKey = <<"y","e","a","r">> /\ value.t = "str" THEN Str(NoUnderscores(value.s)) ELSE value

C4_Witness ==
    /\ CleanCalled
    /\ rawData = Batch(<<Src(<< <<<<"e","v","e","n","t","_","d","e","t","a","i","l","s","_","t","e","x","t">>, Null>>, TitleT>>), RichDoc>>)
    /\ cleanCall.status = "returned"
    /\ Len(cleanCall.events) = 2
    /\ ~HasOwn(cleanCall.events[1].p, <<"d","e","t","a","i","l","s">>)
    /\ ValueAt(cleanCall.events[2], <<"y","e","a","r">>) = Str(<<"2","0","2","3">>)

---------------------------------------------------------------------------
(* Properties of downloadJsonAsCsv, under SpecCsv *)

\* the place <<i, j>> where a key is first seen: record i, its j-th key
FirstSeen(records, key) ==
    LET i == CHOOSE i \in 1..Len(records) :
                 /\ HasOwn(records[i].p, key)
                 /\ \A h \in 1..(i - 1) : ~HasOwn(records[h].p, key)
        j == CHOOSE j \in 1..Len(records[i].p) : ObjectKeys(records[i])[j] = key
    IN <<i, j>>

Before(a, b) == a[1] < b[1] \/ (a[1] = b[1] /\ a[2] < b[2])

\* the fields of row i as a quote-aware reader sees them
FieldsOfRow(i) == ReadCsv(csvCall.dataRows[i])

\* C5: for a non-empty array of mapping records the headers are the keys of
\* all records, each once, in first-seen order; there is one data row per
\* record, in order, with one cell per header, empty where the record lacks
\* the key.
C5_HeaderUnionAndRows ==
    (CsvCalled /\ IsMappingArray(jsonData)) =>
        LET records == jsonData.p
            headers == csvCall.headers
        IN /\ csvCall.status = "returned"
           /\ \A a, b \in 1..Len(headers) : a # b => headers[a] # headers[b]
           /\ {headers[a] : a \in 1..Len(headers)}
                = UNION {{records[i].p[j][1] : j \in 1..Len(records[i].p)} : i \in 1..Len(records)}
           /\ \A a, b \in 1..Len(headers) :
                a < b => Before(FirstSeen(records, headers[a]), FirstSeen(records, headers[b]))
           /\ Len(csvCall.dataRows) = Len(records)
           /\ \A i \in 1..Len(records) :
                IF Len(headers) = 0 THEN csvCall.dataRows[i] = << >>
                ELSE /\ Len(FieldsOfRow(i)) = 1
                     /\ Len(FieldsOfRow(i)[1]) = Len(headers)
                     /\ \A j \in 1..Len(headers) :
                          /\ ~HasOwn(records[i].p, headers[j]) => FieldsOfRow(i)[1][j] = << >>
                          /\ (HasOwn(records[i].p, headers[j]) /\ ~IsDateHeader(headers[j]))
                                => FieldsOfRow(i)[1][j] = TextOf(ValueAt(records[i], headers[j]))

\* whether the text is one of the date-time inputs, and what the exporter is
\* to show for it: the text itself before 1980, YYYY-MM-DD HH:MM:SS from 1980
IsStampText(s) == \E c \in CalendarDates, t \in DayTimes : s \in StampTexts(c, t)

ExcelText(s) ==
    LET ct == CHOOSE ct \in CalendarDates \X DayTimes : s \in StampTexts(ct[1], ct[2])
    IN IF ct[1][1] < 1980 THEN s
       ELSE IF Len(s) = 10 THEN DateText(ct[1]) \o <<" ","0","0",":","0","0",":","0","0">>
       ELSE DateText(ct[1]) \o <<" ">> \o TimeText(ct[2])

UnparseableTexts == {<<"b","a","d","-","d","a","t","e">>, <<"b","a","d",",","d","a","t","e">>}

\* the date texts of other forms that name their zone, or are dates alone in
\* the date-time string format, or are no dates, and what the exporter is to
\* show for each
OtherExcelTexts == {
    <<<<"2","0","2","4">>, <<"2","0","2","4","-","0","1","-","0","1"," ","0","0",":","0","0",":","0","0">>>>,
    <<<<"1","9","7","5">>, <<"1","9","7","5">>>>,
    <<<<"2","0","2","4","-","0","1">>, <<"2","0","2","4","-","0","1","-","0","1"," ","0","0",":","0","0",":","0","0">>>>,
    <<<<"2","0","2","4","-","0","1","-","1","5","T","1","0",":","0","0","Z">>, <<"2","0","2","4","-","0","1","-","1","5"," ","1","0",":","0","0",":","0","0">>>>,
    <<<<"2","0","2","4","-","0","1","-","1","5","T","1","0",":","0","0",":","0","0",".","5","Z">>, <<"2","0","2","4","-","0","1","-","1","5"," ","1","0",":","0","0",":","0","0">>>>,
    <<<<"2","0","2","4","-","0","1","-","1","5","T","1","0",":","0","0",":","0","0","+","0","1",":","0","0">>, <<"2","0","2","4","-","0","1","-","1","5"," ","0","9",":","0","0",":","0","0">>>>,
    <<<<"2","0","2","4","-","0","1","-","1","5"," ","1","0",":","0","0",":","0","0","Z">>, <<"2","0","2","4","-","0","1","-","1","5"," ","1","0",":","0","0",":","0","0">>>>,
    <<<<"+","0","0","2","0","2","4","-","0","1","-","1","5","T","1","0",":","0","0",":","0","0",".","0","0","0","Z">>, <<"2","0","2","4","-","0","1","-","1","5"," ","1","0",":","0","0",":","0","0">>>>,
    <<<<"-","0","0","0","0","0","0">>, <<"-","0","0","0","0","0","0">>>>,
    <<<<"1","/","2","/","2","0","2","4">> \o <<"2028">>, <<"1","/","2","/","2","0","2","4">> \o <<"2028">> >>,
    <<<<"1","/","2","/","2","0","2","4">> \o <<"2029">>, <<"1","/","2","/","2","0","2","4">> \o <<"2029">> >>,
    <<<<"2028">> \o <<"1","/","2","/","2","0","2","4">>, <<"2028">> \o <<"1","/","2","/","2","0","2","4">>>>,
    <<<<"J","a","n"," ","1"," ","1","8","0","0">>, <<"J","a","n"," ","1"," ","1","8","0","0">>>> }

\* the date texts that name no zone and are read in the host's local time:
\* <<text, what is shown on a host in UTC, what is shown on a host in New York>>
LocalDateTexts == {
    <<<<"2","0","2","4","-","0","1","-","1","5","T","1","0",":","0","0",":","0","0">>, <<"2","0","2","4","-","0","1","-","1","5"," ","1","0",":","0","0",":","0","0">>, <<"2","0","2","4","-","0","1","-","1","5"," ","1","5",":","0","0",":","0","0">>>>,
    <<<<"2","0","2","4","/","0","1","/","1","5">>, <<"2","0","2","4","-","0","1","-","1","5"," ","0","0",":","0","0",":","0","0">>, <<"2","0","2","4","-","0","1","-","1","5"," ","0","5",":","0","0",":","0","0">>>>,
    <<<<"J","a","n"," ","1","5"," ","2","0","2","4">>, <<"2","0","2","4","-","0","1","-","1","5"," ","0","0",":","0","0",":","0","0">>, <<"2","0","2","4","-","0","1","-","1","5"," ","0","5",":","0","0",":","0","0">>>>,
    <<<<"J","a","n">> \o <<VT>> \o <<"1","5">> \o <<VT, VT>> \o <<"2","0","2","4">>, <<"2","0","2","4","-","0","1","-","1","5"," ","0","0",":","0","0",":","0","0">>, <<"2","0","2","4","-","0","1","-","1","5"," ","0","5",":","0","0",":","0","0">>>>,
    <<<<"5">>, <<"2","0","0","1","-","0","5","-","0","1"," ","0","0",":","0","0",":","0","0">>, <<"2","0","0","1","-","0","5","-","0","1"," ","0","4",":","0","0",":","0","0">>>>,
    <<<<"-","0","0","0","0","0","0","-","0","1","-","0","1">>, <<"2","0","0","1","-","0","1","-","0","1"," ","0","0",":","0","0",":","0","0">>, <<"2","0","0","1","-","0","1","-","0","1"," ","0","5",":","0","0",":","0","0">>>>,
    <<<<"x"," ","2","0","2","4">>, <<"2","0","2","4","-","0","1","-","0","1"," ","0","0",":","0","0",":","0","0">>, <<"2","0","2","4","-","0","1","-","0","1"," ","0","5",":","0","0",":","0","0">>>>,
    <<<<"2028">> \o <<" ","1","/","2","/","2","0","2","4">>, <<"2","0","2","4","-","0","1","-","0","2"," ","0","0",":","0","0",":","0","0">>, <<"2","0","2","4","-","0","1","-","0","2"," ","0","5",":","0","0",":","0","0">>>>,
    <<<<"1","/","2","/","2","0","2","4">> \o <<"00A0">>, <<"2","0","2","4","-","0","1","-","0","2"," ","0","0",":","0","0",":","0","0">>, <<"2","0","2","4","-","0","1","-","0","2"," ","0","5",":","0","0",":","0","0">>>>,
    <<<<"J","u","l"," ","4"," ","2","0","2","4"," ","2","0",":","3","0">>, <<"2","0","2","4","-","0","7","-","0","4"," ","2","0",":","3","0",":","0","0">>, <<"2","0","2","4","-","0","7","-","0","5"," ","0","0",":","3","0",":","0","0">>>>,
    <<<<"M","a","r"," ","1","0"," ","2","0","2","4"," ","0","2",":","3","0">>, <<"2","0","2","4","-","0","3","-","1","0"," ","0","2",":","3","0",":","0","0">>, <<"2","0","2","4","-","0","3","-","1","0"," ","0","7",":","3","0",":","0","0">>>>,
    <<<<"M","a","r"," ","1","0"," ","2","0","2","4"," ","0","3",":","0","0">>, <<"2","0","2","4","-","0","3","-","1","0"," ","0","3",":","0","0",":","0","0">>, <<"2","0","2","4","-","0","3","-","1","0"," ","0","7",":","0","0",":","0","0">>>>,
    <<<<"N","o","v"," ","3"," ","2","0","2","4"," ","0","1",":","3","0">>, <<"2","0","2","4","-","1","1","-","0","3"," ","0","1",":","3","0",":","0","0">>, <<"2","0","2","4","-","1","1","-","0","3"," ","0","5",":","3","0",":","0","0">>>>,
    <<<<"N","o","v"," ","3"," ","2","0","2","4"," ","0","2",":","0","0">>, <<"2","0","2","4","-","1","1","-","0","3"," ","0","2",":","0","0",":","0","0">>, <<"2","0","2","4","-","1","1","-","0","3"," ","0","7",":","0","0",":","0","0">>>>,
    <<<<"D","e","c"," ","3","1"," ","1","9","7","9"," ","2","0",":","0","0">>, <<"D","e","c"," ","3","1"," ","1","9","7","9"," ","2","0",":","0","0">>, <<"1","9","8","0","-","0","1","-","0","1"," ","0","1",":","0","0",":","0","0">>>>,
    <<<<"2","0","0","6","-","0","4","-","0","2","T","1","2",":","0","0",":","0","0">>, <<"2","0","0","6","-","0","4","-","0","2"," ","1","2",":","0","0",":","0","0">>, <<"2","0","0","6","-","0","4","-","0","2"," ","1","6",":","0","0",":","0","0">>>>,
    <<<<"2","0","0","6","-","0","3","-","1","2","T","1","2",":","0","0",":","0","0">>, <<"2","0","0","6","-","0","3","-","1","2"," ","1","2",":","0","0",":","0","0">>, <<"2","0","0","6","-","0","3","-","1","2"," ","1","7",":","0","0",":","0","0">>>>,
    <<<<"1","9","8","6","-","0","4","-","2","7","T","1","2",":","0","0">>, <<"1","9","8","6","-","0","4","-","2","7"," ","1","2",":","0","0",":","0","0">>, <<"1","9","8","6","-","0","4","-","2","7"," ","1","6",":","0","0",":","0","0">>>>,
    <<<<"7","/","4","/","9","9","9","9">>, <<"9","9","9","9","-","0","7","-","0","4"," ","0","0",":","0","0",":","0","0">>, <<"9","9","9","9","-","0","7","-","0","4"," ","0","4",":","0","0",":","0","0">>>> }

\* what is shown for a local date text on this host
LocalExcelText(e) == IF hostTimeZone = "UTC" THEN e[2] ELSE e[3]

\* the shown text of a textual value in a date column
DateColumnText(s) ==
    IF IsStampText(s) THEN ExcelText(s)
    ELSE IF \E e \in OtherExcelTexts : e[1] = s THEN (CHOOSE e \in OtherExcelTexts : e[1] = s)[2]
    ELSE IF \E e \in LocalDateTexts : e[1] = s THEN LocalExcelText(CHOOSE e \in LocalDateTexts : e[1] = s)
    ELSE s

\* what the columns of the model's inputs hold is text the model can judge
KnownDateText(v) ==
    v.t = "str" => \/ IsStampText(v.s) \/ v.s \in UnparseableTexts \/ v.s = << >>
                   \/ \E e \in OtherExcelTexts \cup LocalDateTexts : e[1] = v.s

\* C6 as stated: in the two date columns any value that is unparseable or
\* earlier than 1980 is shown unchanged and any other as YYYY-MM-DD HH:MM:SS
\* from its UTC fields;
\* in the other columns nothing is date-formatted.
C6_AnyDateCellValue ==
    (CsvCalled /\ IsMappingArray(jsonData) /\ csvCall.status = "returned") =>
        \A i \in 1..Len(jsonData.p) : \A j \in 1..Len(csvCall.headers) :
            LET v == Get(jsonData.p[i], csvCall.headers[j])
                shown == FieldsOfRow(i)[1][j]
            IN IF IsDateHeader(csvCall.headers[j]) /\ v.t = "str"
               THEN KnownDateText(v) /\ shown = DateColumnText(v.s)
               ELSE shown = TextOf(v)

\* C6, amended: in the two date columns a non-empty textual value that is
\* unparseable or earlier than 1980 is shown unchanged and any other textual
\* value as YYYY-MM-DD HH:MM:SS in UTC; a value that is no text (a number, a
\* boolean, an array, an object, null, undefined) is shown as an empty cell;
\* in the other columns nothing is date-formatted.
C6_DateColumnsFormatText ==
    (CsvCalled /\ IsMappingArray(jsonData) /\ csvCall.status = "returned") =>
        \A i \in 1..Len(jsonData.p) : \A j \in 1..Len(csvCall.headers) :
            LET v == Get(jsonData.p[i], csvCall.headers[j])
                shown == FieldsOfRow(i)[1][j]
            IN IF IsDateHeader(csvCall.headers[j])
               THEN IF v.t = "str" THEN KnownDateText(v) /\ shown = DateColumnText(v.s)
                    ELSE shown = << >>
               ELSE shown = TextOf(v)

C6_Witness ==
    /\ CsvCalled
    /\ jsonData = Arr(<<Obj(<< <<<<"s","t","a","r","t","_","t","i","m","e","_","u","t","c">>, ValidStamp>>, <<<<"a">>, Str(<<"x">>)>> >>),
                        Obj(<< <<<<"e","n","d","_","t","i","m","e","_","u","t","c">>, Bool(TRUE)>>, <<<<"t","i","t","l","e">>, ValidStamp>> >>)>>)
    /\ csvCall.dataRows = <<<<"2","0","2","4","-","0","1","-","1","5"," ","1","0",":","0","0",":","0","0",",","x",",",",">>, <<",",",",",","2","0","2","4","-","0","1","-","1","5","T","1","0",":","0","0",":","0","0",".","0","0","0","Z">>>>

CountOf(s, c) == Len(SelectSeq(s, LAMBDA x : x = c))

IsWrapped(cell) == Len(cell) >= 2 /\ cell[1] = "\"" /\ cell[Len(cell)] = "\""

\* C7: the export completes, and the cell of the value read from the record
\* is empty for null and undefined; for every other value it is the text of
\* the value, wrapped in double-quotes with every double-quote doubled exactly
\* when the text holds a comma, a double-quote or a newline; reading the cell
\* back gives the text.
C7_CellEscaping ==
    (CsvCalled /\ IsMappingArray(jsonData) /\ Len(csvCall.headers) = 1
        /\ ~IsDateHeader(csvCall.headers[1])) =>
        /\ csvCall.status = "returned"
        /\ \A i \in 1..Len(jsonData.p) :
            LET v == Get(jsonData.p[i], csvCall.headers[1])
                text == TextOf(v)
                cell == csvCall.dataRows[i]
            IN /\ IsNullish(v) => cell = << >>
               /\ IsWrapped(cell) <=> \E k \in 1..Len(text) : IsSpecial(text[k])
               /\ ~IsWrapped(cell) => cell = text
               /\ IsWrapped(cell) =>
                    /\ Len(cell) = Len(text) + 2 + CountOf(text, "\"")
                    /\ CountOf(cell, "\"") = 2 + 2 * CountOf(text, "\"")
               /\ ReadCsv(cell) = <<<<text>>>>

\* C8: an artifact is saved exactly when records is a non-empty array: then
\* the call returns after one save, under the given file name (data.csv by
\* default), of the BOM followed by the header row and the data rows joined
\* with newlines; otherwise it returns without raising and saves nothing.
\* (In a browser whose anchor element has the download attribute.)
C8_SavesIffNonEmptyArray ==
    (CsvCalled /\ hasDownload) =>
        /\ csvCall.status = "returned"
        /\ IF IsNonEmptyArray(jsonData)
           THEN /\ Len(saved) = 1
                /\ saved[1].filename = (IF fileArg = Undef THEN <<"d","a","t","a",".","c","s","v">> ELSE fileArg.s)
                /\ saved[1].content = <<BOM>> \o Join(<<csvCall.headerRow>> \o csvCall.dataRows, <<"\n">>)
                /\ Len(csvCall.dataRows) = Len(jsonData.p)
           ELSE saved = << >>

\* the keys of the mapping records alone, each once, in first-seen order
MappingHeaders(records) == Headers(SelectSeq(records, LAMBDA r : r.t = "obj"))

\* C9: a record that is no key/value mapping (null, undefined, a number, a
\* string, an array) adds no key to the headers and still gets its row: the
\* export completes with one row per record and one cell per header.
C9_NonMappingRecordsKeepTheirRow ==
    (CsvCalled /\ IsNonEmptyArray(jsonData) /\ ~IsMappingArray(jsonData)) =>
        /\ csvCall.status = "returned"
        /\ csvCall.headers = MappingHeaders(jsonData.p)
        /\ Len(csvCall.dataRows) = Len(jsonData.p)
        /\ \A i \in 1..Len(jsonData.p) :
              Len(csvCall.headers) > 0 => Len(FieldsOfRow(i)[1]) = Len(csvCall.headers)

\* C10: for a non-empty array of mapping records with at least one key, the
\* text after the BOM read with quote-aware CSV rules has the headers as the
\* fields of its first record, and every data record has as many fields.
C10_SerializedTextIsWellFormed ==
    (CsvCalled /\ IsMappingArray(jsonData) /\ csvCall.status = "returned" /\ Len(csvCall.headers) > 0) =>
        LET read == ReadCsv(Tail(csvCall.csvString))
        IN /\ Head(csvCall.csvString) = BOM
           /\ read[1] = csvCall.headers
           /\ Len(read) = 1 + Len(jsonData.p)
           /\ \A r \in 1..Len(read) : Len(read[r]) = Len(csvCall.headers)

====
